---- MODULE Spec2Model ----
(***************************************************************************)
(* Segment derivation and aggregation engine of the bus / metro segment    *)
(* processors (src/code/Bus_Segment_Processor.py and its metro twin,       *)
(* src/code/Metro_Segment_Processor.py, whose bodies are identical up to   *)
(* log messages).                                                          *)
(*                                                                         *)
(* Geometry is modelled on an integer grid.  One grid unit is 0.0000005    *)
(* coordinate units, so the slicer's threshold 0.000001 is 2 grid units.   *)
(* Curves are axis-aligned polylines, for which shapely's project,         *)
(* interpolate and substring are exact in integers.  A point is <<x, y>>,  *)
(* a line is a sequence of points, the empty geometry is <<>>.             *)
(***************************************************************************)
EXTENDS Integers, Sequences, FiniteSets, TLC

VARIABLES
    pc,                  \* position of the call under study
    line,                \* extract_line_segment: argument line
    start_distance,      \* extract_line_segment: argument start_distance
    end_distance,        \* extract_line_segment: argument end_distance
    segment,             \* extract_line_segment(line, start, end)
    segment_swapped,     \* extract_line_segment(line, end, start)
    route_row,           \* create_segments_from_route: argument route_row
    stops_gdf,           \* create_segments_from_route: argument stops_gdf (rows in order)
    segments,            \* create_segments_from_route: returned list
    segments_list,       \* aggregate_segments: argument
    fp_tie_up,           \* binary floating point: a mean exactly between two
                         \* thousandths lies above (TRUE) or below (FALSE) the tie
    aggregated_segments, \* aggregate_segments: returned list, first run
    aggregated_again,    \* aggregate_segments: returned list, second run (new process)
    dist_line,           \* calculate_segment_distance: argument segment_line (or None)
    pyproj_ok,           \* the pyproj reprojection can be built and applied
    distance,            \* calculate_segment_distance: outcome
    unique_stops,        \* create_unique_stops: returned list
    unique_again,        \* create_unique_stops applied to its own output
    routes_gdf,          \* process_all_cities: the loaded routes
    cities,              \* process_all_cities: sorted city list
    city_i,              \* process_all_cities: index of the city in the loop
    route_i,             \* process_city_segments: routes of the city handled so far
    all_segments,        \* process_city_segments: accumulated segments
    processed_routes,    \* process_city_segments: counter
    failed_routes,       \* process_city_segments: counter
    city_results,        \* process_all_cities: one entry per handled city
    global_stats,        \* self.global_stats
    saved,               \* calls of save_city_shapefiles: city and both lists
    result,              \* what process_all_cities returned
    PREFIX,              \* box_test.PREFIX, as its number of characters
    PRINT_LOG,           \* box_test.PRINT_LOG
    LOG,                 \* box_test.LOG, as the sequence of its pieces
    lock,                \* box_test.lock: 0 when free, else the thread holding it
    thread_pc,           \* position of each thread in the call it is making
    new_log,             \* log: local new_log of each thread
    log_loaded,          \* log: the value of LOG read by LOG += new_log
    log_content,         \* get_log: the value each thread's last call returned
    calls,               \* number of calls made so far
    appended,            \* the calls whose message was stored, since the last clear_log
    returned,            \* the calls of log that returned, since the last clear_log
    stack,               \* test.wrapper: the decorated calls in progress
    finished,            \* test.wrapper: the decorated calls that ended
    attempt,             \* get_bus_route_data: loop variable attempt
    retry_count,         \* the session's Retry: retries used up by the current get
    transmissions,       \* get_bus_route_data: HTTP requests sent so far
    responses,           \* get_bus_route_data: outcome of each session.get
    slept,               \* get_bus_route_data: the attempts with a sleep, and who slept
    message_list,        \* get_bus_route_data: what the call returned or raised
    json_error_is_request_exception
                         \* the installed requests raises its own JSONDecodeError

vars == <<pc, line, start_distance, end_distance, segment, segment_swapped,
          route_row, stops_gdf, segments,
          segments_list, fp_tie_up, aggregated_segments, aggregated_again,
          dist_line, pyproj_ok, distance, unique_stops, unique_again,
          routes_gdf, cities, city_i, route_i, all_segments, processed_routes,
          failed_routes, city_results, global_stats, saved, result,
          PREFIX, PRINT_LOG, LOG, lock, thread_pc, new_log, log_loaded,
          log_content, calls, appended, returned, stack, finished,
          attempt, retry_count, transmissions, responses, slept, message_list,
          json_error_is_request_exception>>

sliceVars == <<line, start_distance, end_distance, segment, segment_swapped>>
routeVars == <<route_row, stops_gdf, segments>>
aggVars   == <<segments_list, fp_tie_up, aggregated_segments, aggregated_again>>
distVars  == <<dist_line, pyproj_ok, distance>>
dedupVars == <<unique_stops, unique_again>>
loopVars  == <<route_i, all_segments, processed_routes, failed_routes>>
driverVars == <<routes_gdf, cities, city_i, loopVars, city_results, global_stats,
                saved, result>>
moduleVars == <<PREFIX, PRINT_LOG, LOG, lock>>
threadVars == <<thread_pc, new_log, log_loaded, log_content, calls, appended,
                returned>>
testVars  == <<stack, finished>>
crawlVars == <<attempt, retry_count, transmissions, responses, slept,
               message_list, json_error_is_request_exception>>
utilVars  == <<moduleVars, threadVars, testVars, crawlVars>>

----------------------------------------------------------------------------
(* Bounds of the model *)

MaxDist == 5      \* arc-length arguments tried on the slicer: 0..MaxDist
MaxStops == 3     \* rows of stops_gdf
MaxSegs == 3      \* length of segments_list

----------------------------------------------------------------------------
(* Values *)

\* Python's None, as the result of a call that can return a geometry
NoneGeom == [none |-> TRUE, val |-> <<>>]
SomeGeom(g) == [none |-> FALSE, val |-> g]

\* Python's None, as the result of a call that can return a float
NoneDist == [none |-> TRUE, val |-> 0 - 1]
SomeDist(d) == [none |-> FALSE, val |-> d]

Abs(x) == IF x < 0 THEN 0 - x ELSE x
Min2(a, b) == IF a <= b THEN a ELSE b
Max2(a, b) == IF a >= b THEN a ELSE b
Clamp(x, lo, hi) == Max2(lo, Min2(x, hi))

\* squared Euclidean distance of two points
Dist2(p, q) == (p[1] - q[1]) * (p[1] - q[1]) + (p[2] - q[2]) * (p[2] - q[2])

\* Euclidean distance of two points, to the nearest grid unit (exact on
\* axis-aligned pairs)
Hypot(p, q) ==
    LET n == Dist2(p, q)
    IN  CHOOSE r \in 0..(Abs(p[1] - q[1]) + Abs(p[2] - q[2])) :
            /\ 4 * n < (2 * r + 1) * (2 * r + 1)
            /\ (r = 0 \/ (2 * r - 1) * (2 * r - 1) <= 4 * n)

\* geometry.length
RECURSIVE LineLength(_)
LineLength(g) ==
    IF Len(g) < 2 THEN 0
    ELSE Hypot(g[1], g[2]) + LineLength(Tail(g))

\* arc length of the curve up to its vertex i
RECURSIVE VertexMeasure(_, _)
VertexMeasure(g, i) ==
    IF i <= 1 THEN 0 ELSE VertexMeasure(g, i - 1) + Hypot(g[i - 1], g[i])

\* nearest point of the axis-aligned segment a-b to p
SegNearest(a, b, p) ==
    <<Clamp(p[1], Min2(a[1], b[1]), Max2(a[1], b[1])),
      Clamp(p[2], Min2(a[2], b[2]), Max2(a[2], b[2]))>>

\* shapely line.project(point): arc length of the nearest point of the
\* curve; among equally near segments the first one along the curve wins
LineProject(g, p) ==
    LET segs == 1..(Len(g) - 1)
        d2(i) == Dist2(SegNearest(g[i], g[i + 1], p), p)
        best == CHOOSE i \in segs :
                    /\ \A j \in segs : d2(i) <= d2(j)
                    /\ \A j \in segs : j < i => d2(j) > d2(i)
    IN  VertexMeasure(g, best) + Hypot(g[best], SegNearest(g[best], g[best + 1], p))

\* shapely line.interpolate(distance): the point at that arc length, clamped
\* to the ends of the line
LineInterpolate(g, dist) ==
    LET d == Clamp(dist, 0, LineLength(g))
        i == CHOOSE k \in 1..(Len(g) - 1) :
                 /\ VertexMeasure(g, k) <= d
                 /\ d <= VertexMeasure(g, k + 1)
        off == d - VertexMeasure(g, i)
        a == g[i]
        b == g[i + 1]
        sx == IF b[1] > a[1] THEN 1 ELSE IF b[1] < a[1] THEN 0 - 1 ELSE 0
        sy == IF b[2] > a[2] THEN 1 ELSE IF b[2] < a[2] THEN 0 - 1 ELSE 0
    IN  <<a[1] + sx * off, a[2] + sy * off>>

\* interior vertices of g whose arc length lies strictly between lo and hi
RECURSIVE VerticesBetween(_, _, _, _)
VerticesBetween(g, i, lo, hi) ==
    IF i >= Len(g) THEN <<>>
    ELSE IF lo < VertexMeasure(g, i) /\ VertexMeasure(g, i) < hi
         THEN <<g[i]>> \o VerticesBetween(g, i + 1, lo, hi)
         ELSE VerticesBetween(g, i + 1, lo, hi)

RECURSIVE Reverse(_)
Reverse(s) == IF s = <<>> THEN <<>> ELSE Reverse(Tail(s)) \o <<Head(s)>>

\* shapely.ops.substring(line, start_dist, end_dist), distances >= 0: a point
\* when the two distances coincide or both lie at or past the end, otherwise
\* the vertices from start_dist to end_dist, reversed when start_dist > end_dist.
\* The empty line yields the empty geometry.
Substring(g, start_dist, end_dist) ==
    IF Len(g) < 2 THEN <<>>
    ELSE IF start_dist = end_dist THEN <<LineInterpolate(g, start_dist)>>
    ELSE IF start_dist >= LineLength(g) /\ end_dist >= LineLength(g)
         THEN <<LineInterpolate(g, LineLength(g))>>
    ELSE LET lo == Min2(start_dist, end_dist)
             hi == Max2(start_dist, end_dist)
             fwd == <<LineInterpolate(g, lo)>> \o VerticesBetween(g, 1, lo, hi)
                        \o <<LineInterpolate(g, hi)>>
         IN  IF start_dist > end_dist THEN Reverse(fwd) ELSE fwd

\* the threshold 0.000001 of extract_line_segment, in grid units
Epsilon == 2

\* a mutation of extract_line_segment: the swap of the distances is left out
extract_line_segment_noswap(g, sd, ed) ==
    LET seg == Substring(g, sd, ed)
    IN  IF seg = <<>> \/ LineLength(seg) < Epsilon THEN NoneGeom ELSE SomeGeom(seg)

\* a mutation of extract_line_segment: only the empty slice is turned down
extract_line_segment_nothreshold(g, sd, ed) ==
    LET s == IF sd > ed THEN ed ELSE sd
        e == IF sd > ed THEN sd ELSE ed
        seg == Substring(g, s, e)
    IN  IF seg = <<>> THEN NoneGeom ELSE SomeGeom(seg)

\* BusSegmentProcessor.extract_line_segment; an exception of substring ends
\* in the except clause, which returns None as well
extract_line_segment(g, sd, ed) ==
    LET s == IF sd > ed THEN ed ELSE sd
        e == IF sd > ed THEN sd ELSE ed
        seg == Substring(g, s, e)
    IN  IF seg = <<>> \/ LineLength(seg) < Epsilon THEN NoneGeom ELSE SomeGeom(seg)

----------------------------------------------------------------------------
(* Input pools *)

CurveStraight == <<<<0, 0>>, <<4, 0>>>>
CurveBent == <<<<0, 0>>, <<2, 0>>, <<2, 2>>>>
CurveEmpty == <<>>
Curves == {CurveStraight, CurveBent, CurveEmpty}

\* a stop row whose geometry is missing (line.project raises on it)
NoGeom == <<>>

\* stop locations: on the curve, beside it, and two that share a projection
StopPoints == {<<0, 0>>, <<1, 1>>, <<3, 1>>, <<3, 0>>}

StopIds == <<"A", "B", "C", "D", "E">>
NamesCn == <<"cnA", "cnB", "cnC", "cnD", "cnE">>
NamesEn == <<"enA", "enB", "enC", "enD", "enE">>

\* values of variables a specification does not use
IdleSlice ==
    /\ line = <<>>
    /\ start_distance = 0
    /\ end_distance = 0
    /\ segment = NoneGeom
    /\ segment_swapped = NoneGeom

IdleRoute ==
    /\ route_row = [route_id |-> "", route_cn |-> "", city_cn |-> "",
                    city_en |-> "", geometry |-> <<>>]
    /\ stops_gdf = <<>>
    /\ segments = <<>>

IdleAgg ==
    /\ segments_list = <<>>
    /\ fp_tie_up = FALSE
    /\ aggregated_segments = <<>>
    /\ aggregated_again = <<>>

\* self.global_stats as the constructor leaves it
InitialStats ==
    [total_cities |-> 0, processed_cities |-> 0, failed_cities |-> 0,
     total_routes |-> 0, total_stops |-> 0, total_segments |-> 0,
     total_unique_segments |-> 0, total_unique_stops |-> 0]

IdleDist ==
    /\ dist_line = NoneGeom
    /\ pyproj_ok = TRUE
    /\ distance = [raised |-> FALSE, value |-> 0]

IdleDedup ==
    /\ unique_stops = <<>>
    /\ unique_again = <<>>

IdleDriver ==
    /\ routes_gdf = <<>>
    /\ cities = <<>>
    /\ city_i = 0
    /\ route_i = 0
    /\ all_segments = <<>>
    /\ processed_routes = 0
    /\ failed_routes = 0
    /\ city_results = <<>>
    /\ global_stats = InitialStats
    /\ saved = <<>>
    /\ result = "running"

\* the globals of box_test as the import leaves them
IdleModule ==
    /\ PREFIX = 0
    /\ PRINT_LOG = TRUE
    /\ LOG = <<>>
    /\ lock = 0

IdleThreads ==
    /\ thread_pc = <<>>
    /\ new_log = <<>>
    /\ log_loaded = <<>>
    /\ log_content = <<>>
    /\ calls = 0
    /\ appended = <<>>
    /\ returned = {}

IdleTest ==
    /\ stack = <<>>
    /\ finished = <<>>

IdleCrawl ==
    /\ attempt = 0
    /\ retry_count = 0
    /\ transmissions = 0
    /\ responses = <<>>
    /\ slept = {}
    /\ message_list = "running"
    /\ json_error_is_request_exception = FALSE

IdleUtil ==
    /\ IdleModule
    /\ IdleThreads
    /\ IdleTest
    /\ IdleCrawl

----------------------------------------------------------------------------
(* The curve slicer on its own *)

InitSlice ==
    /\ pc = "slice_call"
    /\ line \in Curves
    /\ start_distance \in 0..MaxDist
    /\ end_distance \in 0..MaxDist
    /\ segment = NoneGeom
    /\ segment_swapped = NoneGeom
    /\ IdleRoute
    /\ IdleAgg
    /\ IdleDist
    /\ IdleDedup
    /\ IdleDriver
    /\ IdleUtil

\* extract_line_segment is called with the distances in both orders; its
\* try / except Exception lets no exception through, so that the call always
\* returns ("slice_done") and never ends raising ("slice_raised")
ExtractLineSegment ==
    /\ pc = "slice_call"
    /\ segment' = extract_line_segment(line, start_distance, end_distance)
    /\ segment_swapped' = extract_line_segment(line, end_distance, start_distance)
    /\ pc' = "slice_done"
    /\ UNCHANGED <<line, start_distance, end_distance, routeVars, aggVars,
                 distVars, dedupVars, driverVars, utilVars>>

NextSlice == ExtractLineSegment

SpecSlice == InitSlice /\ [][NextSlice]_vars

\* C5: extract_line_segment(curve, a, b) and extract_line_segment(curve, b, a)
\* return the same result, the same sub-polyline or None in both cases.
C5_SliceOrderInvariant ==
    pc = "slice_done" => segment = segment_swapped

\* a slice through the bend of the curve, asked for with start > end
C5_Witness ==
    /\ pc = "slice_done"
    /\ start_distance > end_distance
    /\ ~segment.none
    /\ Len(segment.val) = 3
    /\ segment_swapped = segment

\* the two arc-length positions of the call, in ascending order
SliceFrom == Min2(start_distance, end_distance)
SliceTo == Max2(start_distance, end_distance)

\* the part of the curve between the two positions, as substring cuts it
ExtractedSlice == Substring(line, SliceFrom, SliceTo)

\* C21: extract_line_segment returns None exactly when the extracted slice
\* is empty or shorter than the epsilon 0.000001, in particular whenever the
\* two positions are equal, and returns the slice otherwise: the part of the
\* curve from the lower to the upper position.
C21_NoneIffDegenerate ==
    pc = "slice_done" =>
        /\ segment.none <=> (ExtractedSlice = <<>> \/ LineLength(ExtractedSlice) < Epsilon)
        /\ start_distance = end_distance => segment.none
        /\ ~segment.none =>
               /\ segment.val = ExtractedSlice
               /\ segment.val[1] = LineInterpolate(line, SliceFrom)
               /\ segment.val[Len(segment.val)] = LineInterpolate(line, SliceTo)
               /\ LineLength(segment.val)
                      = Min2(SliceTo, LineLength(line)) - SliceFrom
               /\ LineLength(segment.val) >= Epsilon

\* a slice of half the epsilon: two different positions on the curve, None
C21_Witness ==
    /\ pc = "slice_done"
    /\ Len(line) >= 2
    /\ SliceTo = SliceFrom + 1
    /\ SliceTo <= LineLength(line)
    /\ segment.none

\* C22: a call of extract_line_segment on a curve with fewer than 2 points
\* raises to the caller (it does not return), whereas a degenerate slice of
\* a proper curve never raises.
C22_ShortCurveRaises ==
    /\ Len(line) < 2 => pc # "slice_done"
    /\ Len(line) >= 2 => pc # "slice_raised"

----------------------------------------------------------------------------
(* The route segmenter *)

\* rows of a frame that satisfy a test, in frame order: frame[frame[col] == v]
RECURSIVE RowsOfRoute(_, _)
RowsOfRoute(rows, route_id) ==
    IF rows = <<>> THEN <<>>
    ELSE IF Head(rows).route_id = route_id
         THEN <<Head(rows)>> \o RowsOfRoute(Tail(rows), route_id)
         ELSE RowsOfRoute(Tail(rows), route_id)

\* put row x behind the last row of the sorted list whose sequence is <= x's
RECURSIVE InsertBySequence(_, _)
InsertBySequence(sorted, x) ==
    IF sorted = <<>> THEN <<x>>
    ELSE IF Head(sorted).sequence <= x.sequence
         THEN <<Head(sorted)>> \o InsertBySequence(Tail(sorted), x)
         ELSE <<x>> \o sorted

\* DataFrame.sort_values('sequence'): ascending; numpy sorts the short arrays
\* of the model by insertion, which keeps rows of equal sequence in frame order
RECURSIVE SortBySequence(_)
SortBySequence(rows) ==
    IF rows = <<>> THEN <<>>
    ELSE InsertBySequence(SortBySequence(SubSeq(rows, 1, Len(rows) - 1)),
                          rows[Len(rows)])

\* BusSegmentProcessor.get_route_stops_ordered
get_route_stops_ordered(route_id, stops) ==
    LET route_stops == RowsOfRoute(stops, route_id)
    IN  IF Len(route_stops) = 0 THEN route_stops
        ELSE SortBySequence(route_stops)

\* BusSegmentProcessor.project_point_to_line: None when line.project raises
\* (a row without geometry, a line without points)
project_point_to_line(point, g) ==
    IF point = NoGeom \/ Len(g) < 2 THEN NoneDist
    ELSE SomeDist(LineProject(g, point))

\* a mutation of StopProjections: a stop whose projection is None is kept,
\* as a stop at the start of the curve
RECURSIVE StopProjections_keepall(_, _)
StopProjections_keepall(stops_list, route_geometry) ==
    IF stops_list = <<>> THEN <<>>
    ELSE LET stop_row == Head(stops_list)
             projection_distance ==
                 project_point_to_line(stop_row.geometry, route_geometry)
             rest == StopProjections_keepall(Tail(stops_list), route_geometry)
         IN  IF ~projection_distance.none
             THEN <<[stop_data |-> stop_row,
                     projection_distance |-> projection_distance.val]>> \o rest
             ELSE <<[stop_data |-> [stop_row EXCEPT !.geometry = <<0, 0>>],
                     projection_distance |-> 0]>> \o rest

\* the loop of create_segments_from_route that projects the stops and keeps
\* those whose projection is not None, in the order of stops_list
RECURSIVE StopProjections(_, _)
StopProjections(stops_list, route_geometry) ==
    IF stops_list = <<>> THEN <<>>
    ELSE LET stop_row == Head(stops_list)
             projection_distance ==
                 project_point_to_line(stop_row.geometry, route_geometry)
             rest == StopProjections(Tail(stops_list), route_geometry)
         IN  IF ~projection_distance.none
             THEN <<[stop_data |-> stop_row,
                     projection_distance |-> projection_distance.val]>> \o rest
             ELSE rest

RECURSIVE InsertByProjection(_, _)
InsertByProjection(sorted, x) ==
    IF sorted = <<>> THEN <<x>>
    ELSE IF Head(sorted).projection_distance <= x.projection_distance
         THEN <<Head(sorted)>> \o InsertByProjection(Tail(sorted), x)
         ELSE <<x>> \o sorted

\* a mutation of SortByProjection: the list is left in the order of stops_list
SortByProjection_unsorted(stop_projections) == stop_projections

\* stop_projections.sort(key=projection_distance): list.sort is stable
RECURSIVE SortByProjection(_)
SortByProjection(stop_projections) ==
    IF stop_projections = <<>> THEN <<>>
    ELSE InsertByProjection(
             SortByProjection(SubSeq(stop_projections, 1, Len(stop_projections) - 1)),
             stop_projections[Len(stop_projections)])

\* the primary path of calculate_segment_distance, in thousandths of a km:
\* round(line_proj.length / 1000, 3); the scale of the Web-Mercator
\* reprojection is abstracted to 0.001 km per grid unit
ReprojectedKm(g) == LineLength(g)

\* the multiplier 111.32 of the approximate path, in hundredths
KmPerDegreeX100 == 11132

\* the approximate path: round(segment_line.length * 111.32, 3) in thousandths
\* of a km; for distances a grid unit stands for 0.00001 degree
ApproximateKm(g) == (LineLength(g) * KmPerDegreeX100 + 5000) \div 10000

\* a mutation of DistanceOutcome: the approximate conversion is used although
\* the reprojection is available
DistanceOutcome_approximate(line_opt, reprojection_ok) ==
    IF ~line_opt.none
    THEN [raised |-> FALSE, value |-> ApproximateKm(line_opt.val)]
    ELSE [raised |-> FALSE, value |-> 0]

\* the try / except chain of calculate_segment_distance: the reprojection
\* raises without pyproj or on None, segment_line.length raises on None
DistanceOutcome(line_opt, reprojection_ok) ==
    IF reprojection_ok /\ ~line_opt.none
    THEN [raised |-> FALSE, value |-> ReprojectedKm(line_opt.val)]
    ELSE IF ~line_opt.none
    THEN [raised |-> FALSE, value |-> ApproximateKm(line_opt.val)]
    ELSE [raised |-> FALSE, value |-> 0]

\* BusSegmentProcessor.calculate_segment_distance on a geometry, with the
\* reprojection available, in thousandths of a km
calculate_segment_distance(segment_line) ==
    DistanceOutcome(SomeGeom(segment_line), TRUE).value

\* a mutation of FallbackLine: the connector joins the projected positions on
\* the curve instead of the raw stop locations
FallbackLine_projected(route_geometry, start_stop_info, end_stop_info) ==
    <<LineInterpolate(route_geometry, start_stop_info.projection_distance),
      LineInterpolate(route_geometry, end_stop_info.projection_distance)>>

\* LineString([start_point, end_point]) of the raw stop geometries
FallbackLine(route_geometry, start_stop_info, end_stop_info) ==
    <<start_stop_info.stop_data.geometry, end_stop_info.stop_data.geometry>>

\* the body of the loop over consecutive stops: one segment_data dictionary
SegmentData(route, start_stop_info, end_stop_info) ==
    LET start_stop == start_stop_info.stop_data
        end_stop == end_stop_info.stop_data
        extracted == extract_line_segment(route.geometry,
                                          start_stop_info.projection_distance,
                                          end_stop_info.projection_distance)
        segment_line == IF extracted.none
                        THEN FallbackLine(route.geometry, start_stop_info, end_stop_info)
                        ELSE extracted.val
    IN  [s_stop_cn |-> start_stop.name_cn,
         s_stop_en |-> start_stop.name_en,
         s_stopid  |-> start_stop.stop_id,
         e_stop_cn |-> end_stop.name_cn,
         e_stop_en |-> end_stop.name_en,
         e_stopid  |-> end_stop.stop_id,
         distance  |-> calculate_segment_distance(segment_line),
         city_cn   |-> route.city_cn,
         city_en   |-> route.city_en,
         geometry  |-> segment_line]

\* a mutation of PairIndices: the last consecutive pair is left out
PairIndices_short(n) == 1..(n - 2)

\* range(len(stop_projections) - 1), as 1-based indices of the start stops
PairIndices(n) == 1..(n - 1)

\* BusSegmentProcessor.create_segments_from_route
create_segments_from_route(route, stops) ==
    LET route_stops == get_route_stops_ordered(route.route_id, stops)
        stop_projections == SortByProjection(StopProjections(route_stops, route.geometry))
        idx == PairIndices(Len(stop_projections))
    IN  IF Len(route_stops) < 2 THEN <<>>
        ELSE IF route.geometry = <<>> THEN <<>>
        ELSE [i \in idx |->
                 SegmentData(route, stop_projections[i], stop_projections[i + 1])]

\* what varies in the rows offered to create_segments_from_route: rows of the
\* route under study with every location and sequence hint, and rows of
\* another route
RowOptions ==
    {[route_id |-> "r1", sequence |-> q, geometry |-> g] :
        q \in {1, 2}, g \in StopPoints \cup {NoGeom}}
    \cup
    {[route_id |-> "r2", sequence |-> 1, geometry |-> g] : g \in {<<1, 1>>, NoGeom}}

\* row i of a frame: its own stop id and names, the rest from the option
StopRow(i, o) ==
    [stop_id |-> StopIds[i], name_cn |-> NamesCn[i], name_en |-> NamesEn[i],
     route_id |-> o.route_id, sequence |-> o.sequence, geometry |-> o.geometry]

InitRoute ==
    /\ pc = "route_call"
    /\ route_row \in {[route_id |-> "r1", route_cn |-> "line 1", city_cn |-> "cityA",
                       city_en |-> "CityA", geometry |-> g] : g \in Curves}
    /\ \E n \in 0..MaxStops : \E opts \in [1..n -> RowOptions] :
           stops_gdf = [i \in 1..n |-> StopRow(i, opts[i])]
    /\ segments = <<>>
    /\ IdleSlice
    /\ IdleAgg
    /\ IdleDist
    /\ IdleDedup
    /\ IdleDriver
    /\ IdleUtil

CreateSegmentsFromRoute ==
    /\ pc = "route_call"
    /\ segments' = create_segments_from_route(route_row, stops_gdf)
    /\ pc' = "route_done"
    /\ UNCHANGED <<route_row, stops_gdf, sliceVars, aggVars,
                 distVars, dedupVars, driverVars, utilVars>>

NextRoute == CreateSegmentsFromRoute

SpecRoute == InitRoute /\ [][NextRoute]_vars

----------------------------------------------------------------------------
(* Claims about the route segmenter *)

\* the rows of stops_gdf that belong to the route, in frame order
RouteRows == RowsOfRoute(stops_gdf, route_row.route_id)

\* the projected arc-length position of the route's stop with that stop_id
PositionOf(stop_id) ==
    LET row == CHOOSE r \in {RouteRows[i] : i \in 1..Len(RouteRows)} :
                   r.stop_id = stop_id
    IN  project_point_to_line(row.geometry, route_row.geometry)

LocationOf(stop_id) ==
    (CHOOSE r \in {RouteRows[i] : i \in 1..Len(RouteRows)} :
         r.stop_id = stop_id).geometry

AllStopsProject ==
    \A i \in 1..Len(RouteRows) :
        ~project_point_to_line(RouteRows[i].geometry, route_row.geometry).none

\* C1: for a route with a non-empty trajectory and N stops of its route_id
\* that all project, create_segments_from_route returns N-1 segments when
\* N >= 2 and no segment when N < 2.
C1_SegmentCount ==
    (pc = "route_done" /\ route_row.geometry # <<>> /\ AllStopsProject)
        => Len(segments) = IF Len(RouteRows) >= 2 THEN Len(RouteRows) - 1 ELSE 0

\* a frame of three rows, two of them stops of the route, one segment
C1_Witness ==
    /\ pc = "route_done"
    /\ route_row.geometry # <<>>
    /\ AllStopsProject
    /\ Len(stops_gdf) = 3
    /\ Len(RouteRows) = 2
    /\ Len(segments) = 1

\* C2: every segment runs from a stop to a stop at a projected position that
\* is not smaller, and the start positions of successive segments do not
\* decrease.
C2_AscendingProjection ==
    pc = "route_done" =>
        \A i \in 1..Len(segments) :
            /\ PositionOf(segments[i].s_stopid).val <= PositionOf(segments[i].e_stopid).val
            /\ i < Len(segments) =>
                   PositionOf(segments[i].s_stopid).val
                       <= PositionOf(segments[i + 1].s_stopid).val

\* two segments whose stops come in the frame, and by sequence hint, in the
\* opposite of their order along the curve
C2_Witness ==
    /\ pc = "route_done"
    /\ Len(segments) = 2
    /\ Len(stops_gdf) = 3
    /\ segments[1].s_stopid = stops_gdf[3].stop_id
    /\ segments[2].e_stopid = stops_gdf[1].stop_id
    /\ stops_gdf[1].sequence < stops_gdf[3].sequence
    /\ PositionOf(segments[1].s_stopid).val < PositionOf(segments[2].s_stopid).val
    /\ PositionOf(segments[2].s_stopid).val < PositionOf(segments[2].e_stopid).val

\* the stop frames that hold the same stop records as stops_gdf: its rows in
\* any order, with any sequence hints
FrameVariants ==
    LET n == Len(stops_gdf)
    IN  {[i \in 1..n |-> [stops_gdf[p[i]] EXCEPT !.sequence = q[i]]] :
            p \in Permutations(1..n), q \in [1..n -> {1, 2}]}

\* C3: the sequence hints and the order of the rows have no influence: every
\* frame with the same stop records yields the same segment list, also when
\* two stops project to the same position.
C3_SequenceIgnored ==
    pc = "route_done" =>
        \A frame \in FrameVariants :
            create_segments_from_route(route_row, frame) = segments

\* C4: a consecutive pair for which extract_line_segment returns None gets the
\* two-point line between the raw stop locations as geometry, every other pair
\* gets the slice.
C4_FallbackGeometry ==
    pc = "route_done" =>
        \A i \in 1..Len(segments) :
            LET extracted ==
                    extract_line_segment(route_row.geometry,
                                         PositionOf(segments[i].s_stopid).val,
                                         PositionOf(segments[i].e_stopid).val)
            IN  IF extracted.none
                THEN segments[i].geometry = <<LocationOf(segments[i].s_stopid),
                                              LocationOf(segments[i].e_stopid)>>
                ELSE segments[i].geometry = extracted.val

\* a route with one sliced segment and one fallback connector that ends
\* at a stop beside the curve
C4_Witness ==
    /\ pc = "route_done"
    /\ Len(segments) = 2
    /\ \E i \in 1..2 :
           /\ extract_line_segment(route_row.geometry,
                                   PositionOf(segments[i].s_stopid).val,
                                   PositionOf(segments[i].e_stopid).val).none
           /\ segments[i].geometry = <<LocationOf(segments[i].s_stopid),
                                       LocationOf(segments[i].e_stopid)>>
           /\ LocationOf(segments[i].s_stopid) # LocationOf(segments[i].e_stopid)
           /\ LocationOf(segments[i].e_stopid)
                  # LineInterpolate(route_row.geometry,
                                    PositionOf(segments[i].e_stopid).val)
    /\ \E i \in 1..2 :
           /\ ~extract_line_segment(route_row.geometry,
                                    PositionOf(segments[i].s_stopid).val,
                                    PositionOf(segments[i].e_stopid).val).none
           /\ Len(segments[i].geometry) = 3

\* the stops of the route whose projection is not None, and the others
Surviving ==
    {i \in 1..Len(RouteRows) :
        ~project_point_to_line(RouteRows[i].geometry, route_row.geometry).none}
Discarded == (1..Len(RouteRows)) \ Surviving

\* the stop_ids at which a segment starts or ends
SegmentEnds ==
    {segments[k].s_stopid : k \in 1..Len(segments)}
        \cup {segments[k].e_stopid : k \in 1..Len(segments)}

\* C23: stops whose projection is None are discarded before the ordering:
\* the segments are the consecutive pairs of the surviving stops in the order
\* of their projected positions, no discarded stop starts or ends a segment,
\* and a route with one or no surviving stop yields the empty list.
C23_DiscardedStopsExcluded ==
    pc = "route_done" =>
        /\ \A i \in Discarded : RouteRows[i].stop_id \notin SegmentEnds
        /\ Cardinality(Surviving) <= 1 => segments = <<>>
        /\ (Cardinality(Surviving) >= 2 /\ route_row.geometry # <<>>) =>
               /\ Len(segments) = Cardinality(Surviving) - 1
               /\ SegmentEnds = {RouteRows[i].stop_id : i \in Surviving}
               /\ \A k \in 1..(Len(segments) - 1) :
                      segments[k].e_stopid = segments[k + 1].s_stopid
               /\ \A k \in 1..Len(segments) :
                      PositionOf(segments[k].s_stopid).val
                          <= PositionOf(segments[k].e_stopid).val

\* of three stops of the route the one in the middle of the frame has no
\* location; the segment joins the other two
C23_Witness ==
    /\ pc = "route_done"
    /\ Len(RouteRows) = 3
    /\ Discarded = {2}
    /\ Len(segments) = 1
    /\ SegmentEnds = {RouteRows[1].stop_id, RouteRows[3].stop_id}

----------------------------------------------------------------------------
(* The segment aggregator *)

\* a mutation of KeyOf: the two stop ids are put in alphabetical order, which
\* merges the two directions of an edge
KeyOf_undirected(seg) ==
    LET rank(id) == CHOOSE i \in 1..Len(StopIds) : StopIds[i] = id
    IN  IF rank(seg.s_stopid) > rank(seg.e_stopid)
        THEN <<seg.e_stopid, seg.s_stopid>>
        ELSE <<seg.s_stopid, seg.e_stopid>>

\* key = (segment['s_stopid'], segment['e_stopid'])
KeyOf(seg) == <<seg.s_stopid, seg.e_stopid>>

\* the keys of segment_groups in dict order, the order of first insertion
RECURSIVE GroupKeys(_, _)
GroupKeys(segs, seen) ==
    IF segs = <<>> THEN <<>>
    ELSE IF KeyOf(Head(segs)) \in seen
         THEN GroupKeys(Tail(segs), seen)
         ELSE <<KeyOf(Head(segs))>>
                  \o GroupKeys(Tail(segs), seen \cup {KeyOf(Head(segs))})

\* the segments that the first loop files under a key, in input order
RECURSIVE GroupMembers(_, _)
GroupMembers(segs, key) ==
    IF segs = <<>> THEN <<>>
    ELSE IF KeyOf(Head(segs)) = key
         THEN <<Head(segs)>> \o GroupMembers(Tail(segs), key)
         ELSE GroupMembers(Tail(segs), key)

\* group['cities'], a Python set of strings
GroupCities(members) == {members[i].city_cn : i \in 1..Len(members)}

\* the orders in which a Python set of strings can be iterated: the order
\* follows the string hashes, which are salted anew in every process
SetIterations(S) ==
    {f \in [1..Cardinality(S) -> S] : \A x \in S : \E i \in DOMAIN f : f[i] = x}

\* one iteration order for the city set of every group
CitySetOrders(segs) ==
    LET keys == GroupKeys(segs, {})
    IN  {o \in [1..Len(keys) -> UNION {SetIterations(GroupCities(GroupMembers(segs, keys[k]))) :
                                          k \in 1..Len(keys)}] :
            \A k \in 1..Len(keys) :
                o[k] \in SetIterations(GroupCities(GroupMembers(segs, keys[k])))}

RECURSIVE SumDistances(_)
SumDistances(members) ==
    IF members = <<>> THEN 0
    ELSE Head(members).distance + SumDistances(Tail(members))

\* a mutation of AvgDistance: the mean is cut off after three decimals
AvgDistance_truncated(members, tie_up) == SumDistances(members) \div Len(members)

\* round(sum(distances) / len(distances), 3) in thousandths: the nearest
\* thousandth; a mean halfway between two thousandths is a binary float just
\* above or just below the tie, and round() follows that float
AvgDistance(members, tie_up) ==
    LET total == SumDistances(members)
        n == Len(members)
        q == total \div n
        r == total % n
    IN  IF 2 * r < n THEN q
        ELSE IF 2 * r > n THEN q + 1
        ELSE IF tie_up THEN q + 1 ELSE q

\* a mutation of GroupCount: the first member of a group is not counted
GroupCount_skipfirst(members) == Len(members) - 1

\* group['count'], incremented once per member
GroupCount(members) == Len(members)

\* group['first_segment'], stored when it is still None
FirstSegment(members) == members[1]

\* the record that the second loop builds for one group; city_cn is the
\* '; '-joined list of tags, kept as the sequence of the joined tags
AggregatedSegment(members, tie_up, city_order) ==
    LET first == FirstSegment(members)
    IN  [s_stop_cn |-> first.s_stop_cn,
         s_stop_en |-> first.s_stop_en,
         s_stopid  |-> first.s_stopid,
         e_stop_cn |-> first.e_stop_cn,
         e_stop_en |-> first.e_stop_en,
         e_stopid  |-> first.e_stopid,
         city_en   |-> first.city_en,
         geometry  |-> first.geometry,
         num       |-> GroupCount(members),
         distance  |-> AvgDistance(members, tie_up),
         city_cn   |-> city_order]

\* BusSegmentProcessor.aggregate_segments
aggregate_segments(segs, tie_up, city_orders) ==
    LET keys == GroupKeys(segs, {})
    IN  [k \in 1..Len(keys) |->
            AggregatedSegment(GroupMembers(segs, keys[k]), tie_up, city_orders[k])]

\* a mutation of SegmentsAfterAggregation: the template of a group is the
\* input dictionary itself, so that num, distance and city_cn are written
\* into the first segment of every group
SegmentsAfterAggregation_aliased(segs, aggregated) ==
    LET keys == GroupKeys(segs, {})
        GroupOf(i) == CHOOSE k \in 1..Len(keys) : keys[k] = KeyOf(segs[i])
    IN  [i \in 1..Len(segs) |->
            IF \A j \in 1..(i - 1) : KeyOf(segs[j]) # KeyOf(segs[i])
            THEN aggregated[GroupOf(i)]
            ELSE segs[i]]

\* the list handed to aggregate_segments as the call leaves it: the template
\* is segment.copy() and the record written to is a copy of the template,
\* so that no assignment reaches a dictionary of the list
SegmentsAfterAggregation(segs, aggregated) == segs

\* input segments: one edge with the distances of several routes, and the
\* two directions of that edge as two routes of differently tagged data
\* record them
SegmentOf(s, e, v, d) ==
    [s_stop_cn |-> IF v = 1 THEN "cn1" ELSE "cn2",
     s_stop_en |-> IF v = 1 THEN "en1" ELSE "en2",
     s_stopid  |-> s,
     e_stop_cn |-> IF v = 1 THEN "cn3" ELSE "cn4",
     e_stop_en |-> IF v = 1 THEN "en3" ELSE "en4",
     e_stopid  |-> e,
     distance  |-> d,
     city_cn   |-> IF v = 1 THEN "cityA" ELSE "cityB",
     city_en   |-> "CityA",
     geometry  |-> IF v = 1 THEN CurveStraight ELSE CurveBent]

SegmentPool ==
    {SegmentOf("A", "B", 1, d) : d \in {1, 1200, 1300, 1400, 2000, 2400}}
    \cup
    {SegmentOf(k[1], k[2], v, 1200) : k \in {<<"A", "B">>, <<"B", "A">>}, v \in {1, 2}}

InitAgg ==
    /\ pc = "agg_call"
    /\ segments_list \in UNION {[1..n -> SegmentPool] : n \in 0..MaxSegs}
    /\ fp_tie_up \in BOOLEAN
    /\ aggregated_segments = <<>>
    /\ aggregated_again = <<>>
    /\ IdleSlice
    /\ IdleRoute
    /\ IdleDist
    /\ IdleDedup
    /\ IdleDriver
    /\ IdleUtil

AggregateSegments ==
    /\ pc = "agg_call"
    /\ \E city_orders \in CitySetOrders(segments_list) :
           aggregated_segments' = aggregate_segments(segments_list, fp_tie_up, city_orders)
    /\ segments_list' = SegmentsAfterAggregation(segments_list, aggregated_segments')
    /\ pc' = "agg_done"
    /\ UNCHANGED <<fp_tie_up, aggregated_again, sliceVars, routeVars,
                 distVars, dedupVars, driverVars, utilVars>>

\* the same list is aggregated by a second run of the program
AggregateAgain ==
    /\ pc = "agg_done"
    /\ \E city_orders \in CitySetOrders(segments_list) :
           aggregated_again' = aggregate_segments(segments_list, fp_tie_up, city_orders)
    /\ segments_list' = SegmentsAfterAggregation(segments_list, aggregated_again')
    /\ pc' = "agg_twice"
    /\ UNCHANGED <<fp_tie_up, aggregated_segments, sliceVars, routeVars,
                 distVars, dedupVars, driverVars, utilVars>>

NextAgg == AggregateSegments \/ AggregateAgain

SpecAgg == InitAgg /\ [][NextAgg]_vars

----------------------------------------------------------------------------
(* Claims about the segment aggregator *)

Aggregated == pc \in {"agg_done", "agg_twice"}

\* the input segments from stop s to stop e, in input order
MembersOf(s, e) ==
    SelectSeq(segments_list, LAMBDA x : x.s_stopid = s /\ x.e_stopid = e)

InputKeys ==
    {<<segments_list[i].s_stopid, segments_list[i].e_stopid>> :
        i \in 1..Len(segments_list)}

RECURSIVE SumNum(_)
SumNum(records) ==
    IF records = <<>> THEN 0 ELSE Head(records).num + SumNum(Tail(records))

\* C6: the num fields of the records returned by aggregate_segments add up to
\* the length of the input list, and every record has num >= 1.
C6_CountConservation ==
    Aggregated =>
        /\ SumNum(aggregated_segments) = Len(segments_list)
        /\ \A k \in 1..Len(aggregated_segments) : aggregated_segments[k].num >= 1

\* three segments that fall into a group of two and a group of one
C6_Witness ==
    /\ pc = "agg_done"
    /\ Len(segments_list) = 3
    /\ Len(aggregated_segments) = 2
    /\ aggregated_segments[1].num = 2
    /\ aggregated_segments[2].num = 1

RECURSIVE SumOf(_)
SumOf(ds) == IF ds = <<>> THEN 0 ELSE Head(ds) + SumOf(Tail(ds))

DistancesOf(members) == [i \in 1..Len(members) |-> members[i].distance]

\* C7: the distance of an aggregated record is the arithmetic mean of the
\* distances of the group's members rounded to 3 decimals (the thousandth
\* nearest to the mean); members 1.200, 1.400, 1.300 give num 3 and distance
\* 1.300, members 2.0 and 2.4 give num 2 and distance 2.200.
C7_MeanDistance ==
    Aggregated =>
        \A k \in 1..Len(aggregated_segments) :
            LET rec == aggregated_segments[k]
                ds == DistancesOf(MembersOf(rec.s_stopid, rec.e_stopid))
            IN  /\ 2 * Abs(Len(ds) * rec.distance - SumOf(ds)) <= Len(ds)
                /\ ds = <<1200, 1400, 1300>> => (rec.num = 3 /\ rec.distance = 1300)
                /\ ds = <<2000, 2400>> => (rec.num = 2 /\ rec.distance = 2200)

\* the group 1.200, 1.400, 1.300 of the example, aggregated to 1.300
C7_Witness ==
    /\ pc = "agg_done"
    /\ DistancesOf(segments_list) = <<1200, 1400, 1300>>
    /\ Len(aggregated_segments) = 1
    /\ aggregated_segments[1].num = 3
    /\ aggregated_segments[1].distance = 1300

\* C8: aggregate_segments returns exactly one record per distinct ordered
\* pair (s_stopid, e_stopid) of the input; A->B and B->A are not merged.
C8_DirectionalKey ==
    Aggregated =>
        /\ Len(aggregated_segments) = Cardinality(InputKeys)
        /\ {<<aggregated_segments[k].s_stopid, aggregated_segments[k].e_stopid>> :
               k \in 1..Len(aggregated_segments)} = InputKeys
        /\ \A k \in 1..Len(aggregated_segments) :
               aggregated_segments[k].num
                   = Len(MembersOf(aggregated_segments[k].s_stopid,
                                   aggregated_segments[k].e_stopid))

\* an input with both directions of an edge, kept as two records
C8_Witness ==
    /\ pc = "agg_done"
    /\ InputKeys = {<<"A", "B">>, <<"B", "A">>}
    /\ Len(segments_list) = 3
    /\ Len(aggregated_segments) = 2
    /\ aggregated_segments[1].s_stopid = aggregated_segments[2].e_stopid
    /\ aggregated_segments[1].e_stopid = aggregated_segments[2].s_stopid

\* the index of the first input segment with the key of segments_list[i]
FirstIndexOf(s, e) ==
    CHOOSE i \in 1..Len(segments_list) :
        /\ segments_list[i].s_stopid = s /\ segments_list[i].e_stopid = e
        /\ \A j \in 1..(i - 1) :
               ~(segments_list[j].s_stopid = s /\ segments_list[j].e_stopid = e)

RepresentativeIsFirst(records) ==
    \A k \in 1..Len(records) :
        LET rec == records[k]
            first == segments_list[FirstIndexOf(rec.s_stopid, rec.e_stopid)]
        IN  /\ rec.s_stop_cn = first.s_stop_cn /\ rec.s_stop_en = first.s_stop_en
            /\ rec.e_stop_cn = first.e_stop_cn /\ rec.e_stop_en = first.e_stop_en
            /\ rec.geometry = first.geometry
            /\ rec.city_en = first.city_en

FirstOccurrenceOrder(records) ==
    \A k \in 1..(Len(records) - 1) :
        FirstIndexOf(records[k].s_stopid, records[k].e_stopid)
            < FirstIndexOf(records[k + 1].s_stopid, records[k + 1].e_stopid)

\* C9: the representative fields of a record are those of the first input
\* segment with its key, the records come in the order of first occurrence of
\* their keys, and two runs on the same input list return identical output,
\* the combined city tag included.
C9_Deterministic ==
    pc = "agg_twice" =>
        /\ RepresentativeIsFirst(aggregated_segments)
        /\ FirstOccurrenceOrder(aggregated_segments)
        /\ aggregated_again = aggregated_segments

\* the distinct city tags of a list of segments, in the order of first encounter
RECURSIVE TagsInEncounterOrder(_, _)
TagsInEncounterOrder(members, seen) ==
    IF members = <<>> THEN <<>>
    ELSE IF Head(members).city_cn \in seen
         THEN TagsInEncounterOrder(Tail(members), seen)
         ELSE <<Head(members).city_cn>>
                  \o TagsInEncounterOrder(Tail(members), seen \cup {Head(members).city_cn})

\* C10: the city_cn of an aggregated record lists each distinct city tag of
\* its group exactly once, in the order in which the tags are first
\* encountered in the input.
C10_CityTagEncounterOrder ==
    Aggregated =>
        \A k \in 1..Len(aggregated_segments) :
            aggregated_segments[k].city_cn =
                TagsInEncounterOrder(MembersOf(aggregated_segments[k].s_stopid,
                                               aggregated_segments[k].e_stopid), {})

----------------------------------------------------------------------------
(* The distance calculator on its own *)

MaxCoord == 5     \* x coordinates of the end points of the measured lines

DistPoints == {<<x, y>> : x \in 0..MaxCoord, y \in 0..1}

\* the geometries measured: two-point lines, the curves, the empty line
DistLines == {<<p, q>> : p \in DistPoints, q \in DistPoints} \cup Curves

InitDist ==
    /\ pc = "dist_call"
    /\ dist_line \in {NoneGeom} \cup {SomeGeom(g) : g \in DistLines}
    /\ pyproj_ok \in BOOLEAN
    /\ distance = [raised |-> FALSE, value |-> 0]
    /\ IdleSlice
    /\ IdleRoute
    /\ IdleAgg
    /\ IdleDedup
    /\ IdleDriver
    /\ IdleUtil

CalculateSegmentDistance ==
    /\ pc = "dist_call"
    /\ distance' = DistanceOutcome(dist_line, pyproj_ok)
    /\ pc' = "dist_done"
    /\ UNCHANGED <<dist_line, pyproj_ok, sliceVars, routeVars, aggVars,
                   dedupVars, driverVars, utilVars>>

NextDist == CalculateSegmentDistance

SpecDist == InitDist /\ [][NextDist]_vars

\* C18: calculate_segment_distance never raises; it returns the reprojected
\* length whenever the reprojection succeeds, the native length x 111.32 only
\* when the reprojection fails, 0.0 only when both fail, and never a negative
\* value.
C18_DistanceFallbackChain ==
    pc = "dist_done" =>
        /\ ~distance.raised
        /\ distance.value >= 0
        /\ (pyproj_ok /\ ~dist_line.none)
               => distance.value = LineLength(dist_line.val)
        /\ (~pyproj_ok /\ ~dist_line.none)
               => distance.value
                      = (LineLength(dist_line.val) * 11132 + 5000) \div 10000
        /\ dist_line.none => distance.value = 0

\* the reprojection fails on a line whose approximate length differs from
\* its reprojected length
C18_Witness ==
    /\ pc = "dist_done"
    /\ ~pyproj_ok
    /\ ~dist_line.none
    /\ ~distance.raised
    /\ distance.value > LineLength(dist_line.val)

----------------------------------------------------------------------------
(* The stop deduplicator: create_unique_stops *)

\* a null cell of a frame (None); str() turns it into the text 'None'
NullValue == "<null>"

\* str() on a cell that holds text or null
Str(v) == IF v = NullValue THEN "None" ELSE v

\* Series.get(key, default): the default only when the frame lacks the column
Get(row, key, default) == IF key \in DOMAIN row THEN row[key] ELSE default

\* stop_id as the first loop reads it from a row
StopIdOf(stop_row) == Str(Get(stop_row, "stop_id", ""))

\* route_id as the first loop reads it from a row
RouteIdOf(stop_row) == Str(Get(stop_row, "route_id", ""))

\* the keys of stop_groups in insertion order: rows whose stop_id reads as
\* the empty text are passed over
RECURSIVE StopGroupKeysFrom(_, _)
StopGroupKeysFrom(rows, seen) ==
    IF rows = <<>> THEN <<>>
    ELSE LET stop_id == StopIdOf(Head(rows))
         IN  IF stop_id = "" \/ stop_id \in seen
             THEN StopGroupKeysFrom(Tail(rows), seen)
             ELSE <<stop_id>> \o StopGroupKeysFrom(Tail(rows), seen \cup {stop_id})

\* a mutation of StopGroupKeys: the groups are emitted last key first
StopGroupKeys_reversed(rows) == Reverse(StopGroupKeysFrom(rows, {}))

\* the order in which the second loop walks stop_groups.items()
StopGroupKeys(rows) == StopGroupKeysFrom(rows, {})

\* the rows that reach the group of one stop_id, in frame order
RECURSIVE StopGroupMembers(_, _)
StopGroupMembers(rows, stop_id) ==
    IF rows = <<>> THEN <<>>
    ELSE IF StopIdOf(Head(rows)) = stop_id
         THEN <<Head(rows)>> \o StopGroupMembers(Tail(rows), stop_id)
         ELSE StopGroupMembers(Tail(rows), stop_id)

\* a mutation of FirstStop: the template is the last row of the group
FirstStop_last(members) == members[Len(members)]

\* group['first_stop']: set once, when the group is created
FirstStop(members) == members[1]

\* the rows of a group that carry a route id
RoutedMembers(members) ==
    {i \in 1..Len(members) : RouteIdOf(members[i]) # ""}

\* a mutation of RouteCount: every occurrence with a route id counts
RouteCount_occurrences(members) == Cardinality(RoutedMembers(members))

\* len(group['route_ids']): route_ids is a set
RouteCount(members) ==
    Cardinality({RouteIdOf(members[i]) : i \in RoutedMembers(members)})

\* group['cities']: the city tags of the rows that carry a route id
StopCities(members) ==
    {Str(Get(members[i], "city_cn", "")) : i \in RoutedMembers(members)}

\* one iteration order for the city set of every group
StopCityOrders(rows) ==
    LET keys == StopGroupKeys(rows)
    IN  {o \in [1..Len(keys) -> UNION {SetIterations(StopCities(StopGroupMembers(rows, keys[k]))) :
                                          k \in 1..Len(keys)}] :
            \A k \in 1..Len(keys) :
                o[k] \in SetIterations(StopCities(StopGroupMembers(rows, keys[k])))}

\* stop_data of one group; city_cn is the '; '-joined list of tags, kept as
\* the sequence of the joined tags
StopData(stop_id, members, city_order) ==
    LET stop == FirstStop(members)
    IN  [stop_cn  |-> Str(Get(stop, "name_cn", "")),
         stop_en  |-> Str(Get(stop, "name_en", "")),
         stop_id  |-> stop_id,
         num      |-> RouteCount(members),
         city_cn  |-> city_order,
         city_en  |-> Str(Get(stop, "city_en", "")),
         geometry |-> stop.geometry]

\* BusSegmentProcessor.create_unique_stops
create_unique_stops(rows, city_orders) ==
    LET keys == StopGroupKeys(rows)
    IN  [k \in 1..Len(keys) |->
            StopData(keys[k], StopGroupMembers(rows, keys[k]), city_orders[k])]

\* what varies in the rows offered to create_unique_stops: the stop_id cell
\* (two ids, the empty text, null) and the route of the occurrence
DedupOptions ==
    {[stop_id |-> s, route_id |-> r] :
        s \in {"s1", "s2", "", NullValue}, r \in {"r1", "r2", ""}}

\* row i of a frame with a stop_id column: its own names and location
DedupRow(i, o) ==
    [stop_id |-> o.stop_id, route_id |-> o.route_id,
     name_cn |-> NamesCn[i], name_en |-> NamesEn[i],
     city_cn |-> IF o.route_id = "r2" THEN "cityB" ELSE "cityA",
     city_en |-> "CityA", geometry |-> <<i, 0>>]

\* row i of a frame that has no stop_id column
DedupRowNoId(i, r) ==
    [route_id |-> r, name_cn |-> NamesCn[i], name_en |-> NamesEn[i],
     city_cn |-> "cityA", city_en |-> "CityA", geometry |-> <<i, 0>>]

InitDedup ==
    /\ pc = "dedup_call"
    /\ \E n \in 0..MaxStops :
           \/ \E opts \in [1..n -> DedupOptions] :
                  stops_gdf = [i \in 1..n |-> DedupRow(i, opts[i])]
           \/ \E opts \in [1..n -> {"r1", "r2"}] :
                  stops_gdf = [i \in 1..n |-> DedupRowNoId(i, opts[i])]
    /\ route_row = [route_id |-> "", route_cn |-> "", city_cn |-> "",
                    city_en |-> "", geometry |-> <<>>]
    /\ segments = <<>>
    /\ unique_stops = <<>>
    /\ unique_again = <<>>
    /\ IdleSlice
    /\ IdleAgg
    /\ IdleDist
    /\ IdleDriver
    /\ IdleUtil

CreateUniqueStops ==
    /\ pc = "dedup_call"
    /\ \E city_orders \in StopCityOrders(stops_gdf) :
           unique_stops' = create_unique_stops(stops_gdf, city_orders)
    /\ pc' = "dedup_done"
    /\ UNCHANGED <<unique_again, sliceVars, routeVars, aggVars, distVars,
                   driverVars, utilVars>>

\* the records of the first run are handed to create_unique_stops as rows
CreateUniqueStopsAgain ==
    /\ pc = "dedup_done"
    /\ \E city_orders \in StopCityOrders(unique_stops) :
           unique_again' = create_unique_stops(unique_stops, city_orders)
    /\ pc' = "dedup_twice"
    /\ UNCHANGED <<unique_stops, sliceVars, routeVars, aggVars, distVars,
                   driverVars, utilVars>>

NextDedup == CreateUniqueStops \/ CreateUniqueStopsAgain

SpecDedup == InitDedup /\ [][NextDedup]_vars

----------------------------------------------------------------------------
(* Claims about the stop deduplicator *)

Deduplicated == pc \in {"dedup_done", "dedup_twice"}

\* the text of the stop_id cell of frame row i ('' without the column)
IdText(i) ==
    IF "stop_id" \notin DOMAIN stops_gdf[i] THEN ""
    ELSE IF stops_gdf[i].stop_id = NullValue THEN "None"
    ELSE stops_gdf[i].stop_id

\* the frame rows whose stop_id reads as that text
Occurrences(id) == {i \in 1..Len(stops_gdf) : IdText(i) = id}

\* the first frame row whose stop_id reads as that text
FirstOccurrence(id) ==
    CHOOSE i \in Occurrences(id) : \A j \in Occurrences(id) : i <= j

\* C11: create_unique_stops returns exactly one record per distinct stop_id
\* of its input and no stop_id twice, and the name and location of each
\* record are those of the first input row with that stop_id.
C11_OneRecordPerStopId ==
    Deduplicated =>
        /\ \A k, l \in 1..Len(unique_stops) :
               unique_stops[k].stop_id = unique_stops[l].stop_id => k = l
        /\ \A i \in 1..Len(stops_gdf) :
               IdText(i) # "" =>
                   \E k \in 1..Len(unique_stops) : unique_stops[k].stop_id = IdText(i)
        /\ \A k \in 1..Len(unique_stops) :
               /\ Occurrences(unique_stops[k].stop_id) # {}
               /\ LET first == stops_gdf[FirstOccurrence(unique_stops[k].stop_id)]
                  IN  /\ unique_stops[k].stop_cn = first.name_cn
                      /\ unique_stops[k].stop_en = first.name_en
                      /\ unique_stops[k].geometry = first.geometry

\* a stop id occurs in the first and in the last row of a frame of three
\* rows and gets one record, with the name of the first row
C11_Witness ==
    /\ pc = "dedup_done"
    /\ Len(stops_gdf) = 3
    /\ Occurrences("s1") = {1, 3}
    /\ Occurrences("s2") = {2}
    /\ Len(unique_stops) = 2
    /\ unique_stops[1].stop_cn = NamesCn[1]

\* C12: the num of every record equals the number of distinct route ids
\* among the occurrences of its stop_id, not the number of occurrences.
C12_DistinctRouteCount ==
    Deduplicated =>
        \A k \in 1..Len(unique_stops) :
            unique_stops[k].num =
                Cardinality({stops_gdf[i].route_id :
                                i \in Occurrences(unique_stops[k].stop_id)} \ {""})

\* a stop occurs three times, twice on the same route, and counts two routes
C12_Witness ==
    /\ pc = "dedup_done"
    /\ Occurrences("s1") = {1, 2, 3}
    /\ stops_gdf[1].route_id = "r1"
    /\ stops_gdf[2].route_id = "r1"
    /\ stops_gdf[3].route_id = "r2"
    /\ unique_stops[1].num = 2

\* the frame rows whose stop_id is missing: no column, empty text, or null
MissingStopId ==
    {i \in 1..Len(stops_gdf) :
        \/ "stop_id" \notin DOMAIN stops_gdf[i]
        \/ stops_gdf[i].stop_id = ""
        \/ stops_gdf[i].stop_id = NullValue}

\* C13: occurrences whose stop_id is absent, empty or null are skipped: the
\* records are those of the other occurrences alone, one per stop_id, and
\* their counts are taken over the other occurrences alone.
C13_MissingStopIdSkipped ==
    Deduplicated =>
        LET present == (1..Len(stops_gdf)) \ MissingStopId
        IN  /\ {unique_stops[k].stop_id : k \in 1..Len(unique_stops)}
                   = {stops_gdf[i].stop_id : i \in present}
            /\ \A k \in 1..Len(unique_stops) :
                   unique_stops[k].num =
                       Cardinality({stops_gdf[i].route_id :
                                       i \in {j \in present :
                                                 stops_gdf[j].stop_id = unique_stops[k].stop_id}}
                                   \ {""})

\* the records of a run as C14 compares them
StopFacts(records) ==
    {[stop_id |-> records[k].stop_id, stop_cn |-> records[k].stop_cn,
      stop_en |-> records[k].stop_en, num |-> records[k].num,
      city_cn |-> records[k].city_cn] : k \in 1..Len(records)}

\* C14 as stated: create_unique_stops on its own output yields the same set
\* of records (stop ids, names, usage counts, city tags) as the first run.
C14_Idempotent ==
    pc = "dedup_twice" => StopFacts(unique_again) = StopFacts(unique_stops)

\* C14: create_unique_stops on its own output yields one record per record
\* of the first run, in the same order, with the same stop_id, city_en and
\* location; the names are empty, the counts 0 and the city tags empty.
C14_IdempotentOnIdentity ==
    pc = "dedup_twice" =>
        /\ Len(unique_again) = Len(unique_stops)
        /\ \A k \in 1..Len(unique_again) :
               /\ unique_again[k].stop_id = unique_stops[k].stop_id
               /\ unique_again[k].city_en = unique_stops[k].city_en
               /\ unique_again[k].geometry = unique_stops[k].geometry
               /\ unique_again[k].stop_cn = ""
               /\ unique_again[k].stop_en = ""
               /\ unique_again[k].num = 0
               /\ unique_again[k].city_cn = <<>>

\* the second run has been given two records, one of a stop of two routes
C14_Witness ==
    /\ pc = "dedup_twice"
    /\ Len(unique_stops) = 2
    /\ unique_stops[1].num = 2
    /\ Len(unique_again) = 2

\* C25: the city_cn of every unique stop holds the city tag of every
\* occurrence of its stop_id, each distinct tag once, in the order in which
\* the tags are first encountered, whether or not the occurrence carries a
\* route id.
C25_StopCityTagEncounterOrder ==
    Deduplicated =>
        \A k \in 1..Len(unique_stops) :
            unique_stops[k].city_cn =
                TagsInEncounterOrder(
                    StopGroupMembers(stops_gdf, unique_stops[k].stop_id), {})

----------------------------------------------------------------------------
(* The driver: process_all_cities and process_city_segments *)

MaxRoutes == 2    \* rows of routes_gdf

\* the city names of the data, in the order sorted() gives them
CityNames == <<"CityA", "CityB">>

\* BusSegmentProcessor.get_unique_cities: the non-empty city_en values of
\* both frames, sorted
get_unique_cities(stops, routes) ==
    LET all_cities == ({stops[i].city_en : i \in 1..Len(stops)}
                       \cup {routes[i].city_en : i \in 1..Len(routes)}) \ {""}
        Found(c) == c \in all_cities
    IN  SelectSeq(CityNames, Found)

\* routes_gdf[routes_gdf['city_en'] == city_en]
CityRoutes(routes, city_en) ==
    LET OfCity(r) == r.city_en = city_en
    IN  SelectSeq(routes, OfCity)

\* a mutation of CityStops: the stops of every city are handed on
CityStops_unfiltered(stops, city_en) == stops

\* stops_gdf[stops_gdf['city_en'] == city_en]
CityStops(stops, city_en) ==
    LET OfCity(r) == r.city_en = city_en
    IN  SelectSeq(stops, OfCity)

\* whether create_segments_from_route raises: sort_values('sequence') raises
\* TypeError when the sequence cells of the route's rows mix numbers and text
SegmentationRaises(route, stops) ==
    LET route_stops == RowsOfRoute(stops, route.route_id)
    IN  \E i, j \in 1..Len(route_stops) :
            Get(route_stops[i], "seq_kind", "int")
                # Get(route_stops[j], "seq_kind", "int")

\* a mutation of ContinueAfterFailure: the loop over the routes is left
ContinueAfterFailure_break(i, n) == n

\* `continue` in the except clause of the route loop: on to the next route
ContinueAfterFailure(i, n) == i + 1

\* a mutation of RoutesDone: the loop over the routes ends after one route
RoutesDone_early(i, n) == i >= 1 \/ i = n

\* the loop over city_routes.iterrows() has run out
RoutesDone(i, n) == i = n

\* a mutation of FailedCityEntry: the city is recorded as a success
FailedCityEntry_success(city_en) ==
    [city_en |-> city_en, segments_count |-> 0, stops_count |-> 0, success |-> TRUE]

\* the entry appended to city_results for a city that failed; city_pinyin,
\* a transliteration of city_en, is left out
FailedCityEntry(city_en) ==
    [city_en |-> city_en, segments_count |-> 0, stops_count |-> 0, success |-> FALSE]

\* the entry appended to city_results for a city that was saved
SavedCityEntry(city_en, aggregated, unique) ==
    [city_en |-> city_en, segments_count |-> Len(aggregated),
     stops_count |-> Len(unique), success |-> TRUE]

\* a mutation of CountFailedCity: the failure is not counted
CountFailedCity_missed(stats) == stats

\* self.global_stats['failed_cities'] += 1
CountFailedCity(stats) == [stats EXCEPT !.failed_cities = @ + 1]

\* the statistics of a city that was saved
CountSavedCity(stats, segs, aggregated, unique) ==
    [stats EXCEPT !.processed_cities = @ + 1,
                  !.total_segments = @ + Len(segs),
                  !.total_unique_segments = @ + Len(aggregated),
                  !.total_unique_stops = @ + Len(unique)]

\* a mutation of SaveCall: the unique stops are not handed to persistence
SaveCall_nostops(city_en, aggregated, unique, outcome) ==
    [city_en |-> city_en, segments_list |-> aggregated, stops_list |-> <<>>,
     outcome |-> outcome]

\* one call of save_city_shapefiles: its arguments and what became of it
SaveCall(city_en, aggregated, unique, outcome) ==
    [city_en |-> city_en, segments_list |-> aggregated, stops_list |-> unique,
     outcome |-> outcome]

\* what save_city_shapefiles can do: write at least one of the two files,
\* write none (both results None), or raise (os.makedirs is outside any try)
SaveOutcomes == {"written", "nothing", "raised"}

\* the position after the body of the city loop
AfterCity(i, n) == IF i < n THEN "city_start" ELSE "report"

\* the curve of every route of the driver's data
DriverCurve == <<<<0, 0>>, <<2 * MaxRoutes, 0>>>>

\* what varies per row of routes_gdf: the city and id of the route, the city
\* tag of the stop rows recorded for it, and how many stop rows there are
\* (one, two, or two whose sequence cells mix a number and a text)
DriverOptions ==
    {[city_en |-> "CityA", stop_city |-> "CityA", route_id |-> "r1", stops |-> p] :
        p \in {"one", "two", "mixed"}}
    \cup
    {[city_en |-> "CityA", stop_city |-> "CityA", route_id |-> "r2", stops |-> p] :
        p \in {"one", "two", "mixed"}}
    \cup
    {[city_en |-> "CityB", stop_city |-> "CityB", route_id |-> "r1", stops |-> p] :
        p \in {"one", "two", "mixed"}}
    \cup
    {[city_en |-> "CityA", stop_city |-> "CityB", route_id |-> "r1", stops |-> p] :
        p \in {"one", "two"}}

CityCn(city_en) == IF city_en = "CityA" THEN "cityA" ELSE "cityB"

\* row i of routes_gdf
DriverRoute(i, o) ==
    [route_id |-> o.route_id, route_cn |-> "line", city_cn |-> CityCn(o.city_en),
     city_en |-> o.city_en, geometry |-> DriverCurve]

\* stop row j of the rows recorded for row i of routes_gdf: the cities name
\* their stops differently, every row has a location of its own
DriverStop(i, j, o) ==
    LET n == IF o.stop_city = "CityA" THEN j ELSE j + 2
    IN  [stop_id |-> StopIds[j], name_cn |-> NamesCn[n], name_en |-> NamesEn[n],
         route_id |-> o.route_id, sequence |-> j,
         seq_kind |-> IF j = 2 /\ o.stops = "mixed" THEN "str" ELSE "int",
         city_cn |-> CityCn(o.stop_city), city_en |-> o.stop_city,
         geometry |-> <<2 * (i - 1) + (j - 1), 0>>]

RECURSIVE DriverStops(_, _)
DriverStops(opts, i) ==
    IF i > Len(opts) THEN <<>>
    ELSE (IF opts[i].stops = "one" THEN <<DriverStop(i, 1, opts[i])>>
          ELSE <<DriverStop(i, 1, opts[i]), DriverStop(i, 2, opts[i])>>)
         \o DriverStops(opts, i + 1)

InitDriver ==
    /\ pc = "driver_call"
    /\ \E n \in 0..MaxRoutes : \E opts \in [1..n -> DriverOptions] :
           /\ routes_gdf = [i \in 1..n |-> DriverRoute(i, opts[i])]
           /\ stops_gdf = DriverStops(opts, 1)
    /\ route_row = [route_id |-> "", route_cn |-> "", city_cn |-> "",
                    city_en |-> "", geometry |-> <<>>]
    /\ segments = <<>>
    /\ cities = <<>>
    /\ city_i = 0
    /\ route_i = 0
    /\ all_segments = <<>>
    /\ processed_routes = 0
    /\ failed_routes = 0
    /\ city_results = <<>>
    /\ global_stats = InitialStats
    /\ saved = <<>>
    /\ result = "running"
    /\ IdleSlice
    /\ IdleAgg
    /\ IdleDist
    /\ IdleDedup
    /\ IdleUtil

\* what the driver reads and never writes, and what it never touches
driverInputs == <<routes_gdf, stops_gdf>>
driverUnused == <<sliceVars, distVars, route_row, segments, fp_tie_up,
                  aggregated_again, unique_again, utilVars>>

\* the city the loop of process_all_cities is at
CurrentCity == cities[city_i]

\* load_shapefiles raises: the outer except clause returns None
LoadFails ==
    /\ pc = "driver_call"
    /\ pc' = "driver_except"
    /\ result' = "None"
    /\ UNCHANGED <<driverInputs, driverUnused, cities, city_i, loopVars,
                   city_results, global_stats, saved, segments_list,
                   aggregated_segments, unique_stops>>

\* steps 1 and 2 of process_all_cities: the totals and the city list
ListCities ==
    /\ pc = "driver_call"
    /\ cities' = get_unique_cities(stops_gdf, routes_gdf)
    /\ global_stats' = [global_stats EXCEPT !.total_routes = Len(routes_gdf),
                                            !.total_stops = Len(stops_gdf),
                                            !.total_cities = Len(cities')]
    /\ IF cities' = <<>>
       THEN pc' = "driver_no_cities" /\ result' = "None" /\ city_i' = 0
       ELSE pc' = "city_start" /\ result' = result /\ city_i' = 1
    /\ UNCHANGED <<driverInputs, driverUnused, loopVars, city_results, saved,
                   segments_list, aggregated_segments, unique_stops>>

\* process_city_segments up to the loop: a city without routes returns [], []
StartCity ==
    /\ pc = "city_start"
    /\ all_segments' = <<>>
    /\ processed_routes' = 0
    /\ failed_routes' = 0
    /\ route_i' = 0
    /\ IF Len(CityRoutes(routes_gdf, CurrentCity)) = 0
       THEN segments_list' = <<>> /\ pc' = "city_returned"
       ELSE segments_list' = segments_list /\ pc' = "route_loop"
    /\ UNCHANGED <<driverInputs, driverUnused, result, cities, city_i, city_results,
                   global_stats, saved, aggregated_segments, unique_stops>>

\* one pass of the loop over the routes of the city, with its try / except
ProcessRoute ==
    LET city_routes == CityRoutes(routes_gdf, CurrentCity)
        city_stops == CityStops(stops_gdf, CurrentCity)
    IN  /\ pc = "route_loop"
        /\ ~RoutesDone(route_i, Len(city_routes))
        /\ IF SegmentationRaises(city_routes[route_i + 1], city_stops)
           THEN /\ failed_routes' = failed_routes + 1
                /\ route_i' = ContinueAfterFailure(route_i, Len(city_routes))
                /\ UNCHANGED <<all_segments, processed_routes>>
           ELSE /\ all_segments' = all_segments \o
                       create_segments_from_route(city_routes[route_i + 1], city_stops)
                /\ processed_routes' = processed_routes + 1
                /\ route_i' = route_i + 1
                /\ UNCHANGED failed_routes
        /\ UNCHANGED <<pc, driverInputs, driverUnused, result, cities, city_i, city_results,
                       global_stats, saved, segments_list, aggregated_segments,
                       unique_stops>>

\* process_city_segments returns all_segments to the driver
ReturnSegments ==
    /\ pc = "route_loop"
    /\ RoutesDone(route_i, Len(CityRoutes(routes_gdf, CurrentCity)))
    /\ segments_list' = all_segments
    /\ pc' = "city_returned"
    /\ UNCHANGED <<driverInputs, driverUnused, result, cities, city_i, loopVars,
                   city_results, global_stats, saved, aggregated_segments,
                   unique_stops>>

\* `if not segments_list`: the city is recorded as failed and passed over
SkipCity ==
    /\ pc = "city_returned"
    /\ segments_list = <<>>
    /\ city_results' = Append(city_results, FailedCityEntry(CurrentCity))
    /\ global_stats' = CountFailedCity(global_stats)
    /\ city_i' = city_i + 1
    /\ pc' = AfterCity(city_i, Len(cities))
    /\ UNCHANGED <<driverInputs, driverUnused, result, cities, loopVars, saved,
                   segments_list, aggregated_segments, unique_stops>>

AggregateCity ==
    /\ pc = "city_returned"
    /\ segments_list # <<>>
    /\ \E city_orders \in CitySetOrders(segments_list) :
           aggregated_segments' = aggregate_segments(segments_list, fp_tie_up, city_orders)
    /\ segments_list' = SegmentsAfterAggregation(segments_list, aggregated_segments')
    /\ pc' = "city_aggregated"
    /\ UNCHANGED <<driverInputs, driverUnused, result, cities, city_i, loopVars,
                   city_results, global_stats, saved, unique_stops>>

DedupCity ==
    /\ pc = "city_aggregated"
    /\ \E city_orders \in StopCityOrders(CityStops(stops_gdf, CurrentCity)) :
           unique_stops' = create_unique_stops(CityStops(stops_gdf, CurrentCity),
                                               city_orders)
    /\ pc' = "city_deduped"
    /\ UNCHANGED <<driverInputs, driverUnused, result, cities, city_i, loopVars,
                   city_results, global_stats, saved, segments_list,
                   aggregated_segments>>

\* save_city_shapefiles and the statistics that follow it; a raised
\* exception reaches the except clause of the city loop
SaveCity ==
    /\ pc = "city_deduped"
    /\ \E outcome \in SaveOutcomes :
           /\ saved' = Append(saved, SaveCall(CurrentCity, aggregated_segments,
                                              unique_stops, outcome))
           /\ IF outcome = "written"
              THEN /\ city_results' =
                          Append(city_results,
                                 SavedCityEntry(CurrentCity, aggregated_segments,
                                                unique_stops))
                   /\ global_stats' =
                          CountSavedCity(global_stats, segments_list,
                                         aggregated_segments, unique_stops)
              ELSE /\ city_results' = Append(city_results, FailedCityEntry(CurrentCity))
                   /\ global_stats' = CountFailedCity(global_stats)
    /\ city_i' = city_i + 1
    /\ pc' = AfterCity(city_i, Len(cities))
    /\ UNCHANGED <<driverInputs, driverUnused, result, cities, loopVars, segments_list,
                   aggregated_segments, unique_stops>>

\* save_global_summary_report writes files outside any try of its own: when
\* it raises, the outer except clause returns None
WriteReport ==
    /\ pc = "report"
    /\ \E written \in BOOLEAN :
           IF written THEN pc' = "driver_returned" /\ result' = "summary"
                      ELSE pc' = "driver_except" /\ result' = "None"
    /\ UNCHANGED <<driverInputs, driverUnused, cities, city_i, loopVars,
                   city_results, global_stats, saved, segments_list,
                   aggregated_segments, unique_stops>>

NextDriver ==
    \/ LoadFails
    \/ ListCities
    \/ StartCity
    \/ ProcessRoute
    \/ ReturnSegments
    \/ SkipCity
    \/ AggregateCity
    \/ DedupCity
    \/ SaveCity
    \/ WriteReport

SpecDriver == InitDriver /\ [][NextDriver]_vars

----------------------------------------------------------------------------
(* Claims about the driver *)

\* the rows of a frame that are tagged with the city
TaggedWith(frame, c) ==
    LET Tagged(r) == r.city_en = c
    IN  SelectSeq(frame, Tagged)

\* the segments of the routes that do not raise, in route order
RECURSIVE SegmentsOfRoutes(_, _)
SegmentsOfRoutes(routes, stops) ==
    IF routes = <<>> THEN <<>>
    ELSE (IF SegmentationRaises(Head(routes), stops) THEN <<>>
          ELSE create_segments_from_route(Head(routes), stops))
         \o SegmentsOfRoutes(Tail(routes), stops)

\* what a city yields from the rows tagged with it alone
OwnSegments(c) ==
    SegmentsOfRoutes(TaggedWith(routes_gdf, c), TaggedWith(stops_gdf, c))

\* the calls of save_city_shapefiles made for the city
SaveCallsOf(c) == {k \in 1..Len(saved) : saved[k].city_en = c}

\* the segments handed over are the aggregation of the city's own segments
AggregatesOwnSegments(call) ==
    \E city_orders \in CitySetOrders(OwnSegments(call.city_en)) :
        call.segments_list
            = aggregate_segments(OwnSegments(call.city_en), fp_tie_up, city_orders)

\* the stops handed over are the deduplication of the city's own stop rows
DeduplicatesOwnStops(call) ==
    \E city_orders \in StopCityOrders(TaggedWith(stops_gdf, call.city_en)) :
        call.stops_list
            = create_unique_stops(TaggedWith(stops_gdf, call.city_en), city_orders)

\* C15: what is produced for a city references only stop rows and routes
\* tagged with that city: the segments accumulated and aggregated and the
\* unique stops are those obtained from the city's own rows alone, and no
\* name, location or count of another city's rows enters them, even when
\* the other city has the same route_id or stop_id.
C15_CityIsolation ==
    /\ pc = "route_loop" =>
           \A k \in 1..Len(all_segments) : all_segments[k].city_en = CurrentCity
    /\ \A k \in 1..Len(saved) :
           LET call == saved[k]
               own == TaggedWith(stops_gdf, call.city_en)
               rows == 1..Len(own)
           IN  /\ AggregatesOwnSegments(call)
               /\ DeduplicatesOwnStops(call)
               /\ \A j \in 1..Len(call.segments_list) :
                      /\ call.segments_list[j].city_en = call.city_en
                      /\ call.segments_list[j].s_stop_cn \in {own[i].name_cn : i \in rows}
                      /\ call.segments_list[j].e_stop_cn \in {own[i].name_cn : i \in rows}
               /\ \A j \in 1..Len(call.stops_list) :
                      /\ call.stops_list[j].stop_cn \in {own[i].name_cn : i \in rows}
                      /\ call.stops_list[j].geometry \in {own[i].geometry : i \in rows}
                      /\ call.stops_list[j].num =
                             Cardinality({own[i].route_id :
                                 i \in {h \in rows :
                                           own[h].stop_id = call.stops_list[j].stop_id}})

\* CityA has been saved with a segment, and CityB has a route with the same
\* route_id whose stops have the same stop_ids
C15_Witness ==
    /\ Len(saved) >= 1
    /\ saved[1].city_en = "CityA"
    /\ Len(saved[1].segments_list) = 1
    /\ Len(routes_gdf) = 2
    /\ routes_gdf[1].route_id = routes_gdf[2].route_id
    /\ routes_gdf[2].city_en = "CityB"
    /\ Len(TaggedWith(stops_gdf, "CityB")) = 2

\* the positions at which the aggregation of a city has started
AggregationStarted == pc \in {"city_aggregated", "city_deduped"}

\* C16: aggregate_segments and create_unique_stops run for a city only after
\* create_segments_from_route has returned or failed for every route of the
\* city, and no segment of the city is produced once its aggregation has
\* started.
C16_AggregationBarrier ==
    /\ [](AggregationStarted =>
              /\ route_i = Len(TaggedWith(routes_gdf, CurrentCity))
              /\ processed_routes + failed_routes
                     = Len(TaggedWith(routes_gdf, CurrentCity)))
    /\ [][AggregationStarted =>
              /\ all_segments' = all_segments
              /\ route_i' = route_i
              /\ segments_list' = segments_list]_vars

\* the aggregation of a city with two routes has started
C16_Witness ==
    /\ pc = "city_aggregated"
    /\ Len(TaggedWith(routes_gdf, CurrentCity)) = 2
    /\ route_i = 2
    /\ Len(aggregated_segments) >= 1

\* C17: when create_segments_from_route raises for a route, the failure
\* counter goes up, the segments accumulated so far are kept and the
\* remaining routes of the city are processed; at the end processed_routes +
\* failed_routes is the number of routes of the city and the returned list is
\* the concatenation, in route order, of the segments of the routes that did
\* not fail.
C17_RouteFailureIsolation ==
    /\ pc = "route_loop" =>
           /\ processed_routes + failed_routes = route_i
           /\ all_segments =
                  SegmentsOfRoutes(SubSeq(TaggedWith(routes_gdf, CurrentCity), 1, route_i),
                                   TaggedWith(stops_gdf, CurrentCity))
    /\ (pc = "city_returned" /\ Len(TaggedWith(routes_gdf, CurrentCity)) > 0) =>
           /\ processed_routes + failed_routes
                  = Len(TaggedWith(routes_gdf, CurrentCity))
           /\ failed_routes =
                  Cardinality({k \in 1..Len(TaggedWith(routes_gdf, CurrentCity)) :
                      SegmentationRaises(TaggedWith(routes_gdf, CurrentCity)[k],
                                         TaggedWith(stops_gdf, CurrentCity))})
           /\ segments_list = OwnSegments(CurrentCity)

\* the first route of a city raised and the second gave its segment
C17_Witness ==
    /\ pc = "city_returned"
    /\ Len(TaggedWith(routes_gdf, CurrentCity)) = 2
    /\ SegmentationRaises(TaggedWith(routes_gdf, CurrentCity)[1],
                          TaggedWith(stops_gdf, CurrentCity))
    /\ failed_routes = 1
    /\ processed_routes = 1
    /\ Len(segments_list) = 1

\* the cities whose pass of the city loop is over, as indices of cities
CitiesDone == 1..Len(city_results)

\* the city has no route, or its routes gave no segment
NoSegments(c) == OwnSegments(c) = <<>>

\* save_city_shapefiles was called for the city and wrote nothing or raised
SaveFailed(c) ==
    \E k \in SaveCallsOf(c) : saved[k].outcome \in {"nothing", "raised"}

\* C19: a city with zero routes, no generated segments, a failed save or an
\* exception during its processing is recorded in city_results with
\* success = False; the loop goes on to every later city, so that the
\* pipeline leaves the city loop only with an entry for every city, and a
\* call that returns from there returns the result summary.
C19_CityFailureIsolation ==
    /\ Len(city_results) <= Len(cities)
    /\ \A k \in CitiesDone :
           /\ city_results[k].city_en = cities[k]
           /\ (NoSegments(cities[k]) \/ SaveFailed(cities[k]))
                  => ~city_results[k].success
    /\ pc \in {"city_start", "route_loop", "city_returned", "city_aggregated",
               "city_deduped"} => Len(city_results) = city_i - 1
    /\ (pc \in {"report", "driver_returned", "driver_except"} /\ cities # <<>>)
           => Len(city_results) = Len(cities)
    /\ pc = "driver_returned" => result = "summary"

\* the save of the first city raised, the second city was saved and the
\* summary was returned
C19_Witness ==
    /\ pc = "driver_returned"
    /\ result = "summary"
    /\ Len(cities) = 2
    /\ \E k \in SaveCallsOf(cities[1]) : saved[k].outcome = "raised"
    /\ ~city_results[1].success
    /\ city_results[2].success

\* the city's results were aggregated, deduplicated and handed to persistence
Forwarded(c) ==
    \E k \in SaveCallsOf(c) :
        /\ AggregatesOwnSegments(saved[k])
        /\ DeduplicatesOwnStops(saved[k])

EntriesWith(flag) == {k \in 1..Len(city_results) : city_results[k].success = flag}

\* C28: after each pass of the city loop processed_cities + failed_cities is
\* the number of cities handled so far and city_results holds one entry per
\* handled city, in list order; at completion the sum is total_cities, and
\* total_unique_segments never exceeds total_segments.
C28_CityTally ==
    /\ global_stats.processed_cities = Cardinality(EntriesWith(TRUE))
    /\ global_stats.failed_cities = Cardinality(EntriesWith(FALSE))
    /\ pc \in {"city_start", "report"} =>
           /\ global_stats.processed_cities + global_stats.failed_cities = city_i - 1
           /\ Len(city_results) = city_i - 1
           /\ \A k \in 1..(city_i - 1) : city_results[k].city_en = cities[k]
    /\ pc \in {"report", "driver_returned"} =>
           global_stats.processed_cities + global_stats.failed_cities
               = global_stats.total_cities
    /\ global_stats.total_unique_segments <= global_stats.total_segments

\* one city saved with two segments of one edge, one city failed, loop over
C28_Witness ==
    /\ pc = "report"
    /\ global_stats.total_cities = 2
    /\ global_stats.processed_cities = 1
    /\ global_stats.failed_cities = 1
    /\ global_stats.total_segments = 2
    /\ global_stats.total_unique_segments = 1


----------------------------------------------------------------------------
(* box_test.py: log, get_log, clear_log and set_print_mode called by several
   threads.  A thread makes one call after the other; the statements of a call
   that read or write the globals are steps of their own, so that the calls of
   different threads interleave wherever the lock allows it. *)

MaxThreads == 2    \* threads calling into the module
MaxCalls == 3      \* calls made in one run, by all threads together

Threads == 1..MaxThreads

Functions == {"log", "get_log", "clear_log", "set_print_mode"}

\* lock.acquire() returns once no thread holds the lock
CanAcquire_always(holder) == TRUE

CanAcquire(holder) == holder = 0

\* new_log of the call k of thread t: PREFIX, str(arg) and end, every line
\* behind PREFIX; the text is kept as its two pieces
FormattedMessage(t, k, prefix) ==
    <<[thread |-> t, call |-> k, piece |-> "str(arg)", prefix |-> prefix],
      [thread |-> t, call |-> k, piece |-> "end", prefix |-> prefix]>>

NotCalling == [at |-> "idle", call |-> 0, enabled |-> TRUE]

At(t) == thread_pc[t].at

MoveTo(t, position) == [thread_pc EXCEPT ![t].at = position]

InitLog ==
    /\ pc = "threads"
    /\ IdleSlice
    /\ IdleRoute
    /\ IdleAgg
    /\ IdleDist
    /\ IdleDedup
    /\ IdleDriver
    /\ IdleModule
    /\ IdleTest
    /\ IdleCrawl
    /\ thread_pc = [t \in Threads |-> NotCalling]
    /\ new_log = [t \in Threads |-> <<>>]
    /\ log_loaded = [t \in Threads |-> <<>>]
    /\ log_content = [t \in Threads |-> <<>>]
    /\ calls = 0
    /\ appended = <<>>
    /\ returned = {}

logUnused == <<sliceVars, routeVars, aggVars, distVars, dedupVars, driverVars,
               testVars, crawlVars>>

\* a thread that is in no call calls one of the four functions
Call(t) ==
    /\ pc = "threads"
    /\ At(t) = "idle"
    /\ calls < MaxCalls
    /\ \E f \in Functions, enabled \in BOOLEAN :
         /\ f # "set_print_mode" => enabled
         /\ thread_pc' = [thread_pc EXCEPT ![t] =
                [at |-> f \o "_acquire", call |-> calls + 1, enabled |-> enabled]]
    /\ calls' = calls + 1
    /\ UNCHANGED <<pc, logUnused, moduleVars, new_log, log_loaded, log_content,
                   appended, returned>>

\* lock.acquire(), the first statement of each of the four functions
Acquire(t) ==
    /\ pc = "threads"
    /\ \E f \in Functions :
         /\ At(t) = f \o "_acquire"
         /\ thread_pc' = MoveTo(t, f \o "_locked")
    /\ CanAcquire(lock)
    /\ lock' = t
    /\ UNCHANGED <<pc, logUnused, PREFIX, PRINT_LOG, LOG, new_log, log_loaded,
                   log_content, calls, appended, returned>>

\* log, lines 53-69: the message is built from PREFIX and the arguments;
\* str(arg) runs the argument's __str__, which may raise, and the exception
\* leaves log at once
LogFormat(t) ==
    /\ pc = "threads"
    /\ At(t) = "log_locked"
    /\ \/ /\ new_log' = [new_log EXCEPT ![t] =
                            FormattedMessage(t, thread_pc[t].call, PREFIX)]
          /\ thread_pc' = MoveTo(t, "log_print")
       \/ /\ thread_pc' = [thread_pc EXCEPT ![t] = NotCalling]
          /\ UNCHANGED new_log
    /\ UNCHANGED <<pc, logUnused, moduleVars, log_loaded, log_content, calls,
                   appended, returned>>

\* log, lines 72-73: print, when PRINT_LOG is set; print may raise (a closed
\* stream, a character the console encoding lacks)
LogPrint(t) ==
    /\ pc = "threads"
    /\ At(t) = "log_print"
    /\ \/ thread_pc' = MoveTo(t, "log_load")
       \/ /\ PRINT_LOG
          /\ thread_pc' = [thread_pc EXCEPT ![t] = NotCalling]
    /\ UNCHANGED <<pc, logUnused, moduleVars, new_log, log_loaded, log_content,
                   calls, appended, returned>>

\* log, line 77, first half of LOG += new_log: the global is read
LogLoad(t) ==
    /\ pc = "threads"
    /\ At(t) = "log_load"
    /\ log_loaded' = [log_loaded EXCEPT ![t] = LOG]
    /\ thread_pc' = MoveTo(t, "log_store")
    /\ UNCHANGED <<pc, logUnused, moduleVars, new_log, log_content, calls,
                   appended, returned>>

\* log, line 77, second half of LOG += new_log: the sum is stored
LogStore(t) ==
    /\ pc = "threads"
    /\ At(t) = "log_store"
    /\ LOG' = log_loaded[t] \o new_log[t]
    /\ appended' = Append(appended, thread_pc[t].call)
    /\ thread_pc' = MoveTo(t, "log_release")
    /\ UNCHANGED <<pc, logUnused, PREFIX, PRINT_LOG, lock, new_log, log_loaded,
                   log_content, calls, returned>>

\* log, line 79: lock.release() and the return
LogRelease(t) ==
    /\ pc = "threads"
    /\ At(t) = "log_release"
    /\ lock' = 0
    /\ returned' = returned \cup {thread_pc[t].call}
    /\ thread_pc' = [thread_pc EXCEPT ![t] = NotCalling]
    /\ UNCHANGED <<pc, logUnused, PREFIX, PRINT_LOG, LOG, new_log, log_loaded,
                   log_content, calls, appended>>

\* get_log, line 171: log_content = LOG
GetLogRead(t) ==
    /\ pc = "threads"
    /\ At(t) = "get_log_locked"
    /\ log_content' = [log_content EXCEPT ![t] = LOG]
    /\ thread_pc' = MoveTo(t, "get_log_release")
    /\ UNCHANGED <<pc, logUnused, moduleVars, new_log, log_loaded, calls,
                   appended, returned>>

\* get_log, lines 172-173: lock.release() and the return
GetLogRelease(t) ==
    /\ pc = "threads"
    /\ At(t) = "get_log_release"
    /\ lock' = 0
    /\ thread_pc' = [thread_pc EXCEPT ![t] = NotCalling]
    /\ UNCHANGED <<pc, logUnused, PREFIX, PRINT_LOG, LOG, new_log, log_loaded,
                   log_content, calls, appended, returned>>

\* clear_log, lines 157-159: both globals are emptied, the lock is released
ClearLog(t) ==
    /\ pc = "threads"
    /\ At(t) = "clear_log_locked"
    /\ LOG' = <<>>
    /\ PREFIX' = 0
    /\ lock' = 0
    /\ appended' = <<>>
    /\ returned' = {}
    /\ thread_pc' = [thread_pc EXCEPT ![t] = NotCalling]
    /\ UNCHANGED <<pc, logUnused, PRINT_LOG, new_log, log_loaded, log_content,
                   calls>>

\* set_print_mode, lines 185-186: the flag is set, the lock is released
SetPrintMode(t) ==
    /\ pc = "threads"
    /\ At(t) = "set_print_mode_locked"
    /\ PRINT_LOG' = thread_pc[t].enabled
    /\ lock' = 0
    /\ thread_pc' = [thread_pc EXCEPT ![t] = NotCalling]
    /\ UNCHANGED <<pc, logUnused, PREFIX, LOG, new_log, log_loaded, log_content,
                   calls, appended, returned>>

NextLog ==
    \/ \E t \in Threads : Call(t)
    \/ \E t \in Threads : Acquire(t)
    \/ \E t \in Threads : LogFormat(t)
    \/ \E t \in Threads : LogPrint(t)
    \/ \E t \in Threads : LogLoad(t)
    \/ \E t \in Threads : LogStore(t)
    \/ \E t \in Threads : LogRelease(t)
    \/ \E t \in Threads : GetLogRead(t)
    \/ \E t \in Threads : GetLogRelease(t)
    \/ \E t \in Threads : ClearLog(t)
    \/ \E t \in Threads : SetPrintMode(t)

SpecLog == InitLog /\ [][NextLog]_vars


----------------------------------------------------------------------------
(* Claims about the logging functions *)

\* the threads that are between lock.acquire() and lock.release() of a call
InsideLock ==
    {t \in Threads : At(t) \notin {"idle"} \cup {f \o "_acquire" : f \in Functions}}

\* the text is a sequence of complete messages, each in one piece
WholeMessages(text) ==
    /\ Len(text) % 2 = 0
    /\ \A i \in 1..Len(text) :
         i % 2 = 1 =>
            <<text[i], text[i + 1]>> =
                FormattedMessage(text[i].thread, text[i].call, text[i].prefix)

\* the message of call k stands in the text
Holds(text, k) ==
    \E i \in 1..Len(text) : text[i].call = k /\ text[i].piece = "str(arg)"

\* C26: concurrent calls of log are serialized by the lock: at most one thread
\* is between acquire and release, LOG consists of the complete messages of
\* the calls that stored one, each as one contiguous block and in the order
\* of the stores, the message of every call of log that returned is in LOG
\* (since the last clear_log), and what get_log returned consists of complete
\* messages only.
C26_ThreadSafeLogging ==
    pc = "threads" =>
        /\ Cardinality(InsideLock) <= 1
        /\ WholeMessages(LOG)
        /\ Len(LOG) = 2 * Len(appended)
        /\ \A i \in 1..Len(appended) : LOG[2 * i].call = appended[i]
        /\ \A k \in returned : Holds(LOG, k)
        /\ \A t \in Threads : WholeMessages(log_content[t])

\* one thread is between the two halves of LOG += new_log with a message of
\* another thread already in LOG, while another thread waits in log for the lock
C26_Witness ==
    /\ pc = "threads"
    /\ \E t, u \in Threads :
         /\ At(t) = "log_store"
         /\ At(u) = "log_acquire"
         /\ \E i \in 1..Len(LOG) : LOG[i].thread = u

\* C29: a thread that is in no call does not hold the lock: each of the four
\* functions has released it when the call returned or raised.
C29_LockReleased ==
    pc = "threads" => \A t \in Threads : At(t) = "idle" => lock # t


----------------------------------------------------------------------------
(* box_test.py: the decorator test.  One thread calls decorated functions,
   which call decorated functions in turn; stack holds one frame of wrapper
   for each call in progress, the innermost last.  log is called by wrapper
   as it is defined above: it returns, or print raises in it and the lock
   stays held, or it waits for a lock that is held. *)

MaxDepth == 2       \* decorated calls nested in each other
MaxDecorated == 3   \* decorated calls made in one run

\* what the wrapped functions raise
Exceptions == {"ValueError", "KeyError"}

\* what print raises inside log
PrintError == "UnicodeEncodeError"

NoException == "none"

\* wrapper, line 141: PREFIX[:-4] if len(PREFIX) >= 4 else ""
Dedent_kept(prefix) == prefix

Dedent(prefix) == IF prefix >= 4 THEN prefix - 4 ELSE 0

Frame(before, at, raised, pending) ==
    [before |-> before, at |-> at, raised |-> raised, pending |-> pending,
     logged |-> FALSE]

Top == stack[Len(stack)]

SetTop(frame) == [stack EXCEPT ![Len(stack)] = frame]

InitTest ==
    /\ pc = "test"
    /\ IdleSlice
    /\ IdleRoute
    /\ IdleAgg
    /\ IdleDist
    /\ IdleDedup
    /\ IdleDriver
    /\ IdleModule
    /\ IdleThreads
    /\ IdleTest
    /\ IdleCrawl

testUnused == <<sliceVars, routeVars, aggVars, distVars, dedupVars, driverVars,
                threadVars, crawlVars>>

\* wrapper, lines 114-122: a decorated function is called, from outside or
\* from the body of a decorated function: the start is logged, PREFIX grows
\* by four blanks and the wrapped function begins
CallDecorated ==
    /\ pc = "test"
    /\ stack # <<>> => Top.at = "body"
    /\ Len(stack) < MaxDepth
    /\ Len(stack) + Len(finished) < MaxDecorated
    /\ \/ /\ lock = 0
          /\ LOG' = Append(LOG, [msg |-> "--- Starting", error |-> NoException,
                                 prefix |-> PREFIX])
          /\ PREFIX' = PREFIX + 4
          /\ stack' = Append(stack, Frame(PREFIX, "body", NoException, NoException))
          /\ UNCHANGED lock
       \/ /\ lock = 0
          /\ PRINT_LOG
          /\ lock' = 1
          /\ stack' = Append(stack, Frame(PREFIX, "except", NoException, PrintError))
          /\ UNCHANGED <<LOG, PREFIX>>
       \/ /\ lock # 0
          /\ stack' = Append(stack, Frame(PREFIX, "blocked", NoException, NoException))
          /\ UNCHANGED <<LOG, PREFIX, lock>>
    /\ UNCHANGED <<pc, testUnused, PRINT_LOG, finished>>

\* wrapper, line 122: the wrapped function returns
FuncReturns ==
    /\ pc = "test"
    /\ stack # <<>>
    /\ Top.at = "body"
    /\ stack' = SetTop([Top EXCEPT !.at = "finally"])
    /\ UNCHANGED <<pc, testUnused, moduleVars, finished>>

\* wrapper, line 122: the wrapped function raises an exception of its own or
\* lets one of a call it made pass
FuncRaises ==
    /\ pc = "test"
    /\ stack # <<>>
    /\ Top.at = "body"
    /\ \E e \in Exceptions :
         stack' = SetTop([Top EXCEPT !.at = "except", !.raised = e, !.pending = e])
    /\ UNCHANGED <<pc, testUnused, moduleVars, finished>>

\* wrapper, lines 124-137: log(error_msg), then raise.  An exception of log
\* takes the place of the one being handled
ExceptClause ==
    /\ pc = "test"
    /\ stack # <<>>
    /\ Top.at = "except"
    /\ \/ /\ lock = 0
          /\ LOG' = Append(LOG, [msg |-> "!!! FAILED", error |-> Top.pending,
                                 prefix |-> PREFIX])
          /\ stack' = SetTop([Top EXCEPT !.at = "finally", !.logged = TRUE])
          /\ UNCHANGED lock
       \/ /\ lock = 0
          /\ PRINT_LOG
          /\ lock' = 1
          /\ stack' = SetTop([Top EXCEPT !.at = "finally", !.pending = PrintError])
          /\ UNCHANGED LOG
       \/ /\ lock # 0
          /\ stack' = SetTop([Top EXCEPT !.at = "blocked"])
          /\ UNCHANGED <<LOG, lock>>
    /\ UNCHANGED <<pc, testUnused, PREFIX, PRINT_LOG, finished>>

\* wrapper, lines 139-141: the finally clause, and the call ends
FinallyClause ==
    /\ pc = "test"
    /\ stack # <<>>
    /\ Top.at = "finally"
    /\ PREFIX' = Dedent(PREFIX)
    /\ finished' = Append(finished,
          [before |-> Top.before, after |-> PREFIX', depth |-> Len(stack),
           raised |-> Top.raised, delivered |-> Top.pending,
           logged |-> Top.logged])
    /\ stack' = SubSeq(stack, 1, Len(stack) - 1)
    /\ UNCHANGED <<pc, testUnused, PRINT_LOG, LOG, lock>>

NextTest ==
    \/ CallDecorated
    \/ FuncReturns
    \/ FuncRaises
    \/ ExceptClause
    \/ FinallyClause

SpecTest == InitTest /\ [][NextTest]_vars

----------------------------------------------------------------------------
(* Bus_Route_Data_Crawler.py: one call of get_bus_route_data.  self.session
   is the session of _create_robust_session, whose adapter sends a GET again,
   up to Retry.total times, when the connection fails or the status is in
   status_forcelist, before session.get returns or raises. *)

max_retries == 5

\* Retry(total=5, ...) of _create_robust_session
RetryTotal == 5

\* the exception clauses of the loop: the first catches the exceptions of
\* requests.  response.json() raises requests.exceptions.JSONDecodeError, a
\* RequestException, in requests 2.27 and later, and a plain ValueError before
IsRequestException(exception, json_error) ==
    \/ exception = "ConnectionError"
    \/ exception = "JSONDecodeError" /\ json_error

Response(status, exception) == [status |-> status, exception |-> exception]

\* the payloads of an HTTP 200 response and the exception each ends in:
\* bus lines, a status other than "1", a body that is not JSON, and JSON of
\* another shape than the code reads (data.get or buslines.get fails)
Payloads ==
    {Response(200, "none"), Response(200, "JSONDecodeError"),
     Response(200, "AttributeError")}

InitCrawl ==
    /\ pc = "crawl_try"
    /\ IdleSlice
    /\ IdleRoute
    /\ IdleAgg
    /\ IdleDist
    /\ IdleDedup
    /\ IdleDriver
    /\ IdleModule
    /\ IdleThreads
    /\ IdleTest
    /\ attempt = 0
    /\ retry_count = 0
    /\ transmissions = 0
    /\ responses = <<>>
    /\ slept = {}
    /\ message_list = "running"
    /\ json_error_is_request_exception \in BOOLEAN

crawlUnused == <<sliceVars, routeVars, aggVars, distVars, dedupVars, driverVars,
                 moduleVars, threadVars, testVars>>

\* the loop goes to its next round, or ends and line 441 returns message_list
NextAttempt(a) == IF a + 1 < max_retries THEN "crawl_try" ELSE "crawl_returned"

\* line 352, inside session.get: the request is sent, the connection fails or
\* the status is one of status_forcelist, and the adapter sends it again,
\* sleeping first from the second retry on
AdapterRetries ==
    /\ pc = "crawl_try"
    /\ retry_count < RetryTotal
    /\ transmissions' = transmissions + 1
    /\ retry_count' = retry_count + 1
    /\ slept' = IF retry_count >= 1
                THEN slept \cup {[attempt |-> attempt, by |-> "Retry"]}
                ELSE slept
    /\ UNCHANGED <<pc, crawlUnused, attempt, responses, message_list,
                   json_error_is_request_exception>>

\* line 352: session.get raises: the retries are used up, or the failure is
\* one the adapter does not retry
GetRaises ==
    /\ pc = "crawl_try"
    /\ transmissions' = transmissions + 1
    /\ retry_count' = 0
    /\ responses' = Append(responses, Response(0, "ConnectionError"))
    /\ pc' = "crawl_except"
    /\ UNCHANGED <<crawlUnused, attempt, slept, message_list,
                   json_error_is_request_exception>>

\* lines 354 and 424-425: a response with another status than 200: a warning,
\* and the loop goes on
GetOtherStatus ==
    /\ pc = "crawl_try"
    /\ transmissions' = transmissions + 1
    /\ retry_count' = 0
    /\ responses' = Append(responses, Response(404, "none"))
    /\ attempt' = attempt + 1
    /\ pc' = NextAttempt(attempt)
    /\ message_list' = IF pc' = "crawl_returned" THEN "empty list" ELSE message_list
    /\ UNCHANGED <<crawlUnused, slept, json_error_is_request_exception>>

\* lines 354-423 and 437-441: a response with status 200: the routes are
\* returned; an exception of response.json() or of the field accesses goes to
\* the clause that catches it
Get200 ==
    /\ pc = "crawl_try"
    /\ transmissions' = transmissions + 1
    /\ retry_count' = 0
    /\ \E response \in Payloads :
         /\ responses' = Append(responses, response)
         /\ IF response.exception = "none"
            THEN /\ pc' = "crawl_returned"
                 /\ message_list' \in {"empty list", "list of routes"}
            ELSE IF IsRequestException(response.exception,
                                       json_error_is_request_exception)
            THEN /\ pc' = "crawl_except"
                 /\ UNCHANGED message_list
            ELSE /\ pc' = "crawl_returned"
                 /\ message_list' = "empty list"
    /\ UNCHANGED <<crawlUnused, attempt, slept, json_error_is_request_exception>>

\* lines 427-435: the clause for the exceptions of requests: time.sleep
\* unless the attempt is the last, and the loop goes on
BackOff ==
    /\ pc = "crawl_except"
    /\ slept' = IF attempt < max_retries - 1
                THEN slept \cup {[attempt |-> attempt, by |-> "loop"]}
                ELSE slept
    /\ attempt' = attempt + 1
    /\ pc' = NextAttempt(attempt)
    /\ message_list' = IF pc' = "crawl_returned" THEN "empty list" ELSE message_list
    /\ UNCHANGED <<crawlUnused, retry_count, transmissions, responses,
                   json_error_is_request_exception>>

NextCrawl ==
    \/ AdapterRetries
    \/ GetRaises
    \/ GetOtherStatus
    \/ Get200
    \/ BackOff

SpecCrawl == InitCrawl /\ [][NextCrawl]_vars

\* C30: a call sends at most 5 HTTP requests, ends by returning a list, sends
\* no request after the first response with status 200 or after an exception
\* that is not a network exception, and sleeps only after a network exception
\* on an attempt that is not the last.
C30_BoundedRetry ==
    pc \in {"crawl_try", "crawl_except", "crawl_returned"} =>
        /\ transmissions <= 5
        /\ pc = "crawl_returned" => message_list \in {"empty list", "list of routes"}
        /\ \A i \in 1..Len(responses) :
              \/ i = Len(responses)
              \/ /\ responses[i].status # 200
                 /\ responses[i].exception \in {"none", "ConnectionError"}
        /\ \A s \in slept :
              /\ s.by = "loop"
              /\ s.attempt < 4
              /\ responses[s.attempt + 1] = Response(0, "ConnectionError")

====
